---- MODULE Spec2Model ----
(***************************************************************************)
(* Model of SwitchTower (src/switch_tower.py): the purge-tower generator   *)
(* of filaswitch.  Lengths, feed amounts and angles are fixed-point        *)
(* integers counting 1/10000 of a unit (mm or degree); D4(i, f) is the     *)
(* decimal i.ffff.  Speeds are integers (mm/min), except those of the      *)
(* infill passes, which the code divides: they are fixed-point too.        *)
(* last_tower_z is a running sum of doubles: last_tower_z is its value to  *)
(* four decimals and z_err what the double differs from that decimal by    *)
(* (see Fl).  A generator is modelled by its position pc (the source line  *)
(* it resumes at), its arguments and its locals; one Pull runs it to its   *)
(* next yield.                                                             *)
(***************************************************************************)
EXTENDS Integers, Sequences, FiniteSets, TLC

VARIABLES
    hw_config, width, height, wall_width, wall_height, raft_width, raft_height,
    start_pos_x, start_pos_y, raft_pos_x, raft_pos_y,
    purge_line_length, purge_lines, prepurge_sign,
    pre_switch_lines, post_switch_lines,
    last_tower_z, z_err, flipflop_purge, flipflop_infill,
    gens, out, ret, hist

geom == <<hw_config, width, height, wall_width, wall_height, raft_width, raft_height,
          start_pos_x, start_pos_y, raft_pos_x, raft_pos_y,
          purge_line_length, purge_lines>>
tables == <<prepurge_sign, pre_switch_lines, post_switch_lines>>
mutable == <<last_tower_z, flipflop_purge, flipflop_infill, z_err>>
vars == <<geom, tables, mutable, gens, out, ret, hist>>

----------------------------------------------------------------------------
(* Fixed-point arithmetic and the %.3f / %.4f conversions.                  *)

D4(i, f) == i * 10000 + f

Abs(v) == IF v < 0 THEN -v ELSE v

\* 2^n, and 2^n modulo 625
Pow2Table[n \in 0..30] == IF n = 0 THEN 1 ELSE 2 * Pow2Table[n - 1]
Pow2(n) == Pow2Table[n]
Pow2ModTable[n \in 0..80] == IF n = 0 THEN 1 ELSE (2 * Pow2ModTable[n - 1]) % 625
Pow2Mod(n) == Pow2ModTable[n]

RECURSIVE Log2Up(_, _)
Log2Up(v, e) == IF 10000 * Pow2(e + 1) <= v THEN Log2Up(v, e + 1) ELSE e

RECURSIVE Log2Down(_, _)
Log2Down(v, j) == IF v * Pow2(j) < 10000 THEN Log2Down(v, j + 1) ELSE j

\* the binary exponent of the positive number v/10^4 + d (d is a deviation
\* far below 1/10^4 of which only the sign matters here)
ExpoBelow(v, d, e) ==
    IF d < 0 /\ (IF e >= 0 THEN 10000 * Pow2(e) = v ELSE v * Pow2(- e) = 10000)
    THEN e - 1 ELSE e
Expo(v, d) == ExpoBelow(v, d, IF v >= 10000 THEN Log2Up(v, 0) ELSE - Log2Down(v, 1))

\* the side of the decimal v/10^4 (v > 0) on which the double nearest to it
\* lies: -1 below, 0 if the decimal is a double, 1 above.  With e the binary
\* exponent, v/10^4 is v * 2^(48-e) / 625 ulps, so the remainder modulo 625
\* is the distance to the double below, in 625ths of an ulp.
SideOf(j) == IF j = 0 THEN 0 ELSE IF j <= 312 THEN -1 ELSE 1
LitSide(v) == SideOf(((v % 625) * Pow2Mod(48 - Expo(v, 0))) % 625)

\* v >= 0 rounded to three decimals as printf rounds a double lying on the
\* given side of v/10^4: to nearest, and a double that is an exact tie to even
Round3(v, side) ==
    LET q == v \div 10
        m == v % 10
        up == \/ m > 5
              \/ m = 5 /\ side > 0
              \/ m = 5 /\ side = 0 /\ q % 2 = 1
    IN  IF up THEN (q + 1) * 10 ELSE q * 10

\* "%.3f" % v for the double nearest to the decimal v/10^4
Fmt3(v) ==
    IF v = 0 THEN 0
    ELSE LET r == Round3(Abs(v), LitSide(Abs(v))) IN IF v < 0 THEN -r ELSE r

\* A double that is not a decimal of four places: the record [v, d] is the
\* number v/10^4 + d * 2^-64 / 625, v its value to four decimals.  The doubles
\* with binary exponent e are 625 * 2^(e+12) of these units apart, which
\* covers the heights and feed amounts of a tower (0 and 2^-12 up to 16 in
\* magnitude).
Fl(v, d) == [v |-> v, d |-> d]
FNeg(x) == Fl(- x.v, - x.d)
FAbs(x) == IF x.v < 0 \/ (x.v = 0 /\ x.d < 0) THEN FNeg(x) ELSE x
\* x > y
FGt(x, y) == x.v > y.v \/ (x.v = y.v /\ x.d > y.d)

\* the number v/10^4 + d rounded to the nearest double, a tie to the even one
\* R is the distance of v/10^4 + d from the even double below it
FRoundTo(v, d, ulp, R) ==
    Fl(v, d - (R % ulp)
          + (IF 2 * (R % ulp) > ulp \/ (2 * (R % ulp) = ulp /\ R >= ulp) THEN ulp ELSE 0))
\* v/10^4 is Pow2(e + 13) * ((v * 2^(47-e)) % 625) units above an even double
FRoundExp(v, d, e) ==
    FRoundTo(v, d, 625 * Pow2(e + 12),
             (Pow2(e + 13) * (((v % 625) * Pow2Mod(47 - e)) % 625) + d) % (1250 * Pow2(e + 12)))
\* (a difference of doubles that is zero to four decimals is a double)
FRound(v, d) ==
    IF v = 0 THEN Fl(0, d)
    ELSE IF v < 0 THEN FNeg(FRoundExp(- v, - d, Expo(- v, - d)))
    ELSE FRoundExp(v, d, Expo(v, d))

\* the double a decimal literal or argument v/10^4 denotes
FLit(v) == FRound(v, 0)

\* x + y of two doubles
FAdd(x, y) == FRound(x.v + y.v, x.d + y.d)

\* "%.3f" % x
Fmt3F(x) == Round3(x.v, x.d)

\* "%.4f" % v : four decimals is the resolution of the model, so nothing is lost.
Fmt4(v) == v

\* "%.4f" % x : a double is far less than half of 1/10^4 off its decimal
Fmt4F(x) == x.v

\* utils.is_float_zero(value, 3): the double is zero to three decimal places.
is_float_zero(value) == Fmt3F(FAbs(value)) = 0

\* a * b and a / b of two fixed-point numbers
Mul(a, b) == (a * b) \div 10000
Div(a, b) == (a * 10000) \div b

----------------------------------------------------------------------------
(* Hardware selectors and the directions of the gcode module.               *)

PEEK == "PEEK-PRO-12"
PTFE == "PTFE-PRO-12"
E3DV6 == "PTFE-EV6"
HW_CONFIGS == {PTFE, E3DV6, PEEK}
UNKNOWN_HW == "UNKNOWN-HW"

E == D4(0, 0)
N == D4(90, 0)
W == D4(180, 0)
S == D4(270, 0)
SE == D4(315, 0)

\* the displacement of a relative move of the given length along a compass
\* direction: E is +x, N is +y, W is -x, S is -y
DX(d, length) == IF d = E THEN length ELSE IF d = W THEN - length ELSE 0
DY(d, length) == IF d = N THEN length ELSE IF d = S THEN - length ELSE 0

----------------------------------------------------------------------------
(* Command lines: one record shape for every (command, comment) pair.       *)
(* op "None" is a pair without command text (a section marker).             *)

L0 == [op |-> "None", x |-> 0, y |-> 0, z |-> 0, e |-> 0, f |-> 0, p |-> 0,
       dir |-> 0, len |-> 0, tool |-> -1, mult |-> 0, last |-> FALSE,
       comment |-> ""]

\* the value a helper returns when it has nothing to emit (Python None)
NoLine == [L0 EXCEPT !.op = "nothing"]

Marker(c) == [L0 EXCEPT !.comment = c]
Raw(o, c) == [L0 EXCEPT !.op = o, !.comment = c]
\* "G1 X%.3f E%.4f F<f>"
G1XE(xv, ev, fv, c) == [L0 EXCEPT !.op = "G1", !.x = Fmt3(xv), !.e = Fmt4(ev), !.f = fv, !.comment = c]
\* "G1 Y<y> F<f>"
G1Y(yv, fv, c) == [L0 EXCEPT !.op = "G1", !.y = yv, !.f = fv, !.comment = c]
\* "G1 E<e> F<f>"
G1E(ev, fv, c) == [L0 EXCEPT !.op = "G1", !.e = ev, !.f = fv, !.comment = c]
\* "G4 P<ms>"
G4P(ms, c) == [L0 EXCEPT !.op = "G4", !.p = ms, !.comment = c]
\* "G1 Z%.3f F.." % (zf, ..), zf a double
G1Z(zf, fv, c) == [L0 EXCEPT !.op = "G1Z", !.z = Fmt3F(zf), !.f = fv, !.comment = c]

\* gcode.gen_head_move(x, y, speed): absolute travel
gen_head_move(xv, yv, speed, c) ==
    [L0 EXCEPT !.op = "head_move", !.x = xv, !.y = yv, !.f = speed, !.comment = c]

\* gcode.gen_direction_move(direction, length, speed, extruder, feed_rate, last_line):
\* relative move; tool = -1 is a travel without extruder, mult/e carry the feed rate
gen_direction_move(d, length, speed, ext_tool, feed, is_last, c) ==
    [L0 EXCEPT !.op = "dir_move", !.dir = d, !.len = length, !.f = speed,
               !.tool = ext_tool, !.mult = feed, !.last = is_last, !.comment = c]

\* extruder.get_retract_gcode(), extruder.get_prime_gcode(change)
get_retract_gcode(ext) == [L0 EXCEPT !.op = "ext_retract", !.tool = ext.tool]
get_prime_gcode(ext, change) == [L0 EXCEPT !.op = "ext_prime", !.tool = ext.tool, !.e = change]

----------------------------------------------------------------------------
(* SwitchTower.__init__ and the hardware tables.                            *)

InitWidth == D4(50, 0)
BaseHeight == D4(14, 0)

InitHeight(hw) == IF hw = E3DV6 THEN BaseHeight + D4(2, 0) ELSE BaseHeight

\* int(abs(self.height / 2)) - 1, one less for E3DV6
InitPurgeLinesNoDec(hw) == ((Abs(InitHeight(hw)) \div 2) \div 10000) - 1
InitPurgeLines(hw) ==
    LET n == ((Abs(InitHeight(hw)) \div 2) \div 10000) - 1
    IN  IF hw = E3DV6 THEN n - 1 ELSE n

prepurge_feed_rate(xv) == Mul(xv, Div(D4(4, 5000), D4(50, 0)))

\* a table whose four Y shifts are all the longer of the two
TrailPairsLong(w, y1, y2) ==
    LET fl == prepurge_feed_rate(w)
        ym == IF y1 > y2 THEN y1 ELSE y2
    IN << G1XE(w, fl, 6000, " purge trail"),  G1Y(ym, 3000, " Y shift"),
          G1XE(-w, fl, 6000, " purge trail"), G1Y(ym, 3000, " Y shift"),
          G1XE(w, fl, 6000, " purge trail"),  G1Y(ym, 3000, " Y shift"),
          G1XE(-w, fl, 6000, " purge trail"), G1Y(ym, 3000, " Y shift") >>

\* the four (purge trail, Y shift) pairs of a table, Y shifts y1, y2, y1, y2
TrailPairs(w, y1, y2) ==
    LET fl == prepurge_feed_rate(w)
    IN << G1XE(w, fl, 6000, " purge trail"),  G1Y(y1, 3000, " Y shift"),
          G1XE(-w, fl, 6000, " purge trail"), G1Y(y2, 3000, " Y shift"),
          G1XE(w, fl, 6000, " purge trail"),  G1Y(y1, 3000, " Y shift"),
          G1XE(-w, fl, 6000, " purge trail"), G1Y(y2, 3000, " Y shift") >>

PeekTail ==
    << G1XE(D4(10, 0), D4(-20, 0), 1500, " drip trail"),
       G1E(D4(-15, 0), 1500, " 25mm/s reshaping"),
       G4P(2000, " 2s cooling period"),
       G1E(D4(-95, 0), 1500, " 25mm/s long retract") >>

PtfeTail ==
    << G1E(D4(-20, 0), 3000, " rapid retract"),
       G4P(2500, " 2.5s cooling period"),
       G1E(D4(-140, 0), 3000, " 50mm/s long retract") >>

init_pre_switch_gcode(hw, w) ==
    IF hw = PEEK THEN
        [b \in BOOLEAN |->
            IF b THEN TrailPairs(w, D4(0, 6000), D4(1, 4000)) \o PeekTail
                 ELSE TrailPairs(w, D4(1, 4000), D4(0, 6000)) \o PeekTail]
    ELSE IF hw = PTFE THEN
        [b \in BOOLEAN |->
            IF b THEN TrailPairs(w, D4(0, 6000), D4(1, 4000)) \o PtfeTail
                 ELSE TrailPairs(w, D4(1, 4000), D4(0, 6000)) \o PtfeTail]
    ELSE IF hw = E3DV6 THEN
        LET fl == prepurge_feed_rate(w) IN
        [b \in BOOLEAN |->
            IF b THEN
                << G1XE(w, fl, 6000, " purge trail"),  G1Y(D4(0, 8000), 3000, " Y shift"),
                   G1XE(-w, fl, 6000, " purge trail"), G1Y(D4(1, 4000), 3000, " Y shift"),
                   G1XE(w, fl, 6000, " purge trail"),  G1Y(D4(0, 6000), 3000, " Y shift"),
                   G1XE(-w, fl, 6000, " purge trail"), G1Y(D4(1, 4000), 3000, " Y shift"),
                   G1XE(w, fl, 6000, " purge trail"),  G1Y(D4(1, 0), 3000, " Y shift") >>
                \o PtfeTail
            ELSE
                TrailPairs(w, D4(1, 4000), D4(0, 6000))
                \o << G1XE(w, fl, 6000, " purge trail"), G1Y(D4(1, 4000), 3000, " Y shift") >>
                \o PtfeTail]
    ELSE [b \in BOOLEAN |-> << >>]

\* the else-branch a default-to-PTFE slip would give
init_post_switch_gcode_default(hw, w, lines, sign) ==
    IF hw = PEEK THEN
        [lines |-> lines \o
                   << G1E(D4(125, 0), 1500, " 25mm/s feed"),
                      G1XE(w - D4(10, 0), Mul(w, Div(D4(1, 6000), D4(40, 0))), 1500, " prime trail") >>,
         sign |-> 1]
    ELSE IF hw = E3DV6 THEN
        [lines |-> lines \o
                   << G1E(D4(100, 0), 3000, " 50mm/s feed"),
                      G1E(D4(54, 0), 1500, " 25mm/s feed"),
                      G1XE(-w, Mul(w, Div(D4(5, 0), D4(50, 0))), 900, " prime trail") >>,
         sign |-> -1]
    ELSE
        [lines |-> lines \o
                   << G1E(D4(100, 0), 3000, " 50mm/s feed"),
                      G1E(D4(54, 0), 1500, " 25mm/s feed"),
                      G1XE(w, Mul(w, Div(D4(5, 0), D4(50, 0))), 900, " prime trail") >>,
         sign |-> 1]

\* init_post_switch_gcode appends the lines of the hardware to the list
\* post_switch_lines holds (empty in __init__) and sets prepurge_sign; with
\* another selector it leaves both as they are
init_post_switch_gcode(hw, w, lines, sign) ==
    IF hw = PEEK THEN
        [lines |-> lines \o
                   << G1E(D4(125, 0), 1500, " 25mm/s feed"),
                      G1XE(w - D4(10, 0), Mul(w, Div(D4(1, 6000), D4(40, 0))), 1500, " prime trail") >>,
         sign |-> 1]
    ELSE IF hw = PTFE THEN
        [lines |-> lines \o
                   << G1E(D4(100, 0), 3000, " 50mm/s feed"),
                      G1E(D4(54, 0), 1500, " 25mm/s feed"),
                      G1XE(w, Mul(w, Div(D4(5, 0), D4(50, 0))), 900, " prime trail") >>,
         sign |-> 1]
    ELSE IF hw = E3DV6 THEN
        [lines |-> lines \o
                   << G1E(D4(100, 0), 3000, " 50mm/s feed"),
                      G1E(D4(54, 0), 1500, " 25mm/s feed"),
                      G1XE(-w, Mul(w, Div(D4(5, 0), D4(50, 0))), 900, " prime trail") >>,
         sign |-> -1]
    ELSE [lines |-> lines, sign |-> sign]

----------------------------------------------------------------------------
(* The views the caller passes in: extruders and layers.                    *)

MaxCalls == 3

Extruders ==
    { [tool |-> 0, retract |-> D4(2, 0), retract_speed |-> 1800, z_hop |-> 0,
       wipe |-> 0, feed_rate |-> D4(0, 400)],
      [tool |-> 1, retract |-> D4(3, 0), retract_speed |-> 2400, z_hop |-> D4(0, 5000),
       wipe |-> D4(2, 0), feed_rate |-> D4(0, 500)] }

\* extruder.get_feed_rate(multiplier)
get_feed_rate(ext, multiplier) == Mul(ext.feed_rate, multiplier)

Heights == {0, D4(0, 1000), D4(0, 2000)}
LayerZs == {D4(0, 2000), D4(0, 4000)}
MinSpeeds == {1200, 1250, 2400}

Layers == [height : Heights, z : LayerZs, min_speed : MinSpeeds, feed_rate : {D4(0, 450)}]

\* the layers handed to the generation calls
CallLayers == { l \in Layers : \/ l.height = 0 /\ l.z = D4(0, 2000) /\ l.min_speed = 2400
                               \/ l.height = D4(0, 1000) /\ l.z = D4(0, 2000) /\ l.min_speed = 1250
                               \/ l.height = D4(0, 2000) /\ l.z = D4(0, 4000) /\ l.min_speed = 1200 }

EPositions == {D4(0, 5000), 0, -D4(1, 0), -D4(1, 9996), -D4(1, 9995), -D4(1, 9980),
               -D4(2, 0), -D4(2, 4), -D4(2, 9995), -D4(3, 0), -D4(5, 0)}
\* the extruder positions handed to the generation calls: none retracted,
\* and one that leaves 0.0005 to retract for a retract length of 2, which as
\* a sum of doubles is below 0.0005 and zero to three decimals
CallEPositions == {0, -D4(1, 9995)}
ZHops == {0, D4(0, 5000)}
\* the z-hop the caller passes with a generation call: that of the extruder in use
CallZHops(ext) == {zh \in ZHops : zh = ext.z_hop}
ZSpeeds == {1000}
XYSpeeds == {9000}

StartPositions == {<<D4(0, 0), D4(1, 0)>>}
Selectors == HW_CONFIGS \cup {UNKNOWN_HW}

----------------------------------------------------------------------------
(* Helpers of SwitchTower.                                                   *)

\* a ramp slip: the last two lines keep min_speed
RECURSIVE purge_speeds_ramp(_, _, _, _)
purge_speeds_ramp(i, n, speed, acc) ==
    IF i >= n THEN acc
    ELSE LET sp == IF i >= 2 THEN 2400 ELSE speed
         IN  purge_speeds_ramp(i + 1, n, sp, <<sp>> \o acc)

\* the loop of generate_purge_speeds: i counts range(n), acc is purge_speeds
RECURSIVE purge_speeds_loop(_, _, _, _)
purge_speeds_loop(i, n, speed, acc) ==
    IF i >= n THEN acc
    ELSE LET min_speed_lines == 0
             sp == IF i >= min_speed_lines THEN 2400 ELSE speed
         IN  purge_speeds_loop(i + 1, n, sp, <<sp>> \o acc)

generate_purge_speeds(min_speed) == purge_speeds_loop(0, purge_lines, min_speed, << >>)

\* the lift to new_z_hop unless that is the height the head is at
z_hop_unless(new_z_hop, at, z_speed) ==
    IF new_z_hop # at THEN G1Z(new_z_hop, z_speed, " z-hop") ELSE NoLine

\* a hop that lifts from the layer's z instead of the tower's
z_hop_from_layer(z, layer, z_hop, z_speed, extruder) ==
    IF extruder.z_hop # 0
    THEN z_hop_unless(FAdd(FLit(layer.z), FLit(extruder.z_hop)), FAdd(z, FLit(z_hop)), z_speed)
    ELSE NoLine

\* a hop that compares the heights as decimals of four places
z_hop_decimal(z, layer, z_hop, z_speed, extruder) ==
    IF extruder.z_hop # 0 /\ z.v + extruder.z_hop # layer.z + z_hop
    THEN G1Z(FAdd(z, FLit(extruder.z_hop)), z_speed, " z-hop")
    ELSE NoLine

\* z is the double self.last_tower_z at the time of the call; the arguments
\* are the doubles their decimals denote; new_z_hop, layer.z + z_hop and the
\* != are those of doubles
_get_z_hop(z, layer, z_hop, z_speed, extruder) ==
    IF extruder.z_hop # 0
    THEN z_hop_unless(FAdd(z, FLit(extruder.z_hop)), FAdd(FLit(layer.z), FLit(z_hop)), z_speed)
    ELSE NoLine

\* the command for a retraction that is not zero, cut to the retract length
retraction_line(retraction, retract, retract_speed) ==
    IF ~ is_float_zero(retraction)
    THEN G1E(Fmt4F(FNeg(IF FGt(retraction, retract) THEN retract ELSE retraction)),
             retract_speed, " tower retract")
    ELSE NoLine

_get_retraction(e_pos, extruder) ==
    retraction_line(FAdd(FLit(extruder.retract), FLit(e_pos)), FLit(extruder.retract),
                    extruder.retract_speed)

_get_wall_position_gcode(flipflop, xy_speed) ==
    LET x == start_pos_x - D4(1, 2000)
        y == start_pos_y - D4(0, 5000)
    IN  gen_head_move(x, IF ~ flipflop THEN y + wall_height ELSE y, xy_speed, " move to purge zone")

\* a wall that turns the same way for both flip values
wall_unflipped(j, flipflop, extruder, wall_speed, feed_rate) ==
    LET last_y == wall_height - D4(0, 3000)
        d == <<E, N, W, S>>
        len == <<wall_width, wall_height, wall_width, last_y>>
    IN  gen_direction_move(d[j], len[j], wall_speed, extruder.tool, feed_rate, j = 4, " wall")

\* the j-th line (1..4) of _get_wall_gcode
_get_wall_gcode(j, flipflop, extruder, wall_speed, feed_rate) ==
    LET last_y == wall_height - D4(0, 3000)
        d == IF flipflop THEN <<E, N, W, S>> ELSE <<E, S, W, N>>
        len == <<wall_width, wall_height, wall_width, last_y>>
    IN  gen_direction_move(d[j], len[j], wall_speed, extruder.tool, feed_rate, j = 4, " wall")

\* a wipe that goes on in the direction of the pass
wipe_along(direction, ext, speed) ==
    gen_direction_move(direction, ext.wipe, speed, -1, 0, FALSE, " wipe")

\* gcode.gen_direction_move(direction + 180, extruder.wipe, speed), " wipe"
wipe_move(direction, ext, speed) ==
    gen_direction_move(direction + D4(180, 0), ext.wipe, speed, -1, 0, FALSE, " wipe")

\* math.degrees(math.atan(infill_y / infill_x)) for the two wall heights
infill_angle == IF wall_height = D4(17, 0) THEN D4(62, 3925) ELSE D4(59, 2853)
\* gcode.calculate_path_length((0, 0), (infill_x, infill_y))
infill_path_length == IF wall_height = D4(17, 0) THEN D4(18, 8457) ELSE D4(17, 986)

----------------------------------------------------------------------------
(* Generators.  A configuration c holds the position pc, the locals loc,    *)
(* the mutable tower fields (z with zd, fp, fi) and y, the pair yielded by  *)
(* the step (NoLine while the body runs on without yielding).               *)

Loc0 == [i |-> 0, j |-> 0, tbl |-> FALSE, w |-> 0, h |-> 0, min_speed |-> 0,
         feed_rate |-> 0, purge_feed_rate |-> 0, purge_length |-> 0,
         dir_1 |-> 0, dir_2 |-> 0, speeds |-> << >>, direction |-> 0,
         flip |-> FALSE, wallflip |-> FALSE]

Args0 == [layer |-> [height |-> 0, z |-> 0, min_speed |-> 0, feed_rate |-> 0],
          e_pos |-> 0,
          extruder |-> [tool |-> 0, retract |-> 0, retract_speed |-> 0, z_hop |-> 0,
                        wipe |-> 0, feed_rate |-> 0],
          new_e |-> [tool |-> 0, retract |-> 0, retract_speed |-> 0, z_hop |-> 0,
                     wipe |-> 0, feed_rate |-> 0],
          retract |-> FALSE, z_hop |-> 0, z_speed |-> 0, xy_speed |-> 0,
          flipflop |-> FALSE, wall_speed |-> 0, feed_rate |-> 0]

NoGen == [kind |-> "none", pc |-> "done", a |-> Args0, loc |-> Loc0]

Yield(c, line, next) == [c EXCEPT !.y = line, !.pc = next]
Goto(c, next) == [c EXCEPT !.pc = next]
\* an optional step that yields an empty pair when it has nothing to emit
YieldAlways(c, line, next) == Yield(c, IF line # NoLine THEN line ELSE L0, next)

\* "if x: yield x"
YieldIf(c, line, next) == IF line # NoLine THEN Yield(c, line, next) ELSE Goto(c, next)

\* a raft that only raises a tower still at 0
raft_z_if_unset(z) == IF z.v = 0 THEN FLit(D4(0, 2000)) ELSE z

\* self.last_tower_z = 0.2 at the end of get_raft_lines
\* (the double nearest to 0.2)
raft_z(z) == FLit(D4(0, 2000))

\* a loop that stops one round early
raft_rounds_less == ((raft_width \div 2) \div 10000) - 1

\* range(int(self.raft_width / 2))
raft_rounds == (raft_width \div 2) \div 10000

\* get_raft_lines(first_layer, extruder, retract, xy_speed, z_speed)
RaftStep(a, c) ==
    LET pc == c.pc
        ext == a.extruder
        speed == 2000
        wall(d, len, next) ==
            Yield(c, gen_direction_move(d, len, speed, ext.tool, 0, FALSE, " raft wall"), next)
    IN
    CASE pc = "l225" -> Yield(c, Marker(" TOWER RAFT START"), "l226")
      [] pc = "l226" ->
            IF ext.z_hop # 0
            THEN Yield(c, G1Z(FAdd(FLit(D4(0, 2000)), FLit(ext.z_hop)), a.z_speed, " z-hop"),
                       "l229")
            ELSE Goto(c, "l229")
      [] pc = "l229" ->
            Yield(c, gen_head_move(raft_pos_x - D4(0, 4000), raft_pos_y - D4(0, 4000),
                                   a.xy_speed, " move to raft zone"), "l230")
      [] pc = "l230" -> Yield(c, G1Z(FLit(D4(0, 2000)), a.z_speed, " move z close"), "l231")
      [] pc = "l231" -> Yield(c, Raw("G91", " relative positioning"), "l234")
      [] pc = "l234" ->
            Goto([c EXCEPT !.loc.w = raft_width + D4(0, 8000),
                           !.loc.h = raft_height + D4(0, 8000)], "l237")
      [] pc = "l237" -> wall(E, c.loc.w, "l238")
      [] pc = "l238" -> wall(N, c.loc.h, "l239")
      [] pc = "l239" -> wall(W, c.loc.w, "l240")
      [] pc = "l240" ->
            Goto([c EXCEPT !.loc.w = @ - D4(0, 4000), !.loc.h = @ - D4(0, 4000)], "l242")
      [] pc = "l242" -> wall(S, c.loc.h, "l243")
      [] pc = "l243" -> wall(E, c.loc.w, "l244")
      [] pc = "l244" -> Goto([c EXCEPT !.loc.h = @ - D4(0, 4000)], "l245")
      [] pc = "l245" -> wall(N, c.loc.h, "l246")
      [] pc = "l246" ->
            Goto([c EXCEPT !.loc.w = @ - D4(0, 4000), !.loc.h = @ - D4(0, 4000)], "l248")
      [] pc = "l248" -> wall(W, c.loc.w, "l249")
      [] pc = "l249" -> wall(S, c.loc.h, "l251")
      [] pc = "l251" ->
            Yield(c, gen_direction_move(SE, D4(0, 6000), a.xy_speed, -1, 0, FALSE, ""), "l253")
      [] pc = "l253" ->
            Goto([c EXCEPT !.loc.feed_rate = get_feed_rate(ext, D4(1, 3000)), !.loc.i = 0], "l255")
      [] pc = "l255" ->
            IF c.loc.i < raft_rounds
            THEN Yield(c, gen_direction_move(N, raft_height, 1000, ext.tool, c.loc.feed_rate,
                                             FALSE, " raft1"), "l257")
            ELSE Goto(c, "l261")
      [] pc = "l257" ->
            Yield(c, gen_direction_move(E, D4(1, 0), 1000, -1, 0, FALSE, " raft2"), "l258")
      [] pc = "l258" ->
            Yield(c, gen_direction_move(S, raft_height, 1000, ext.tool, c.loc.feed_rate,
                                        FALSE, " raft3"), "l259")
      [] pc = "l259" ->
            Yield([c EXCEPT !.loc.i = @ + 1],
                  gen_direction_move(E, D4(1, 0), 1000, -1, 0, FALSE, " raft4"), "l255")
      [] pc = "l261" ->
            IF a.retract THEN Yield(c, get_retract_gcode(ext), "l263") ELSE Goto(c, "l263")
      [] pc = "l263" -> Yield(c, Raw("G90", " absolute positioning"), "l264")
      [] pc = "l264" -> Yield(c, Marker(" TOWER RAFT END"), "l265")
      [] pc = "l265" -> Goto([c EXCEPT !.z = raft_z(Fl(c.z, c.zd)).v,
                                           !.zd = raft_z(Fl(c.z, c.zd)).d], "done")


\* a tower z taken from the layer alone, out of reach of other calls
tower_z_of_layer(z, layer) == FAdd(FLit(layer.z), FLit(layer.height))

\* a tower z that is set to the layer's z instead of being incremented
tower_z_from_layer(z, layer) == FLit(layer.z)

\* self.last_tower_z = self.last_tower_z + layer.height
\* (a sum of doubles)
tower_z_add(z, layer) == FAdd(z, FLit(layer.height))

\* a flip that inverts the other flag
flip_other(c) == [c EXCEPT !.fi = ~ c.fi]

\* self.flipflop_purge = not self.flipflop_purge
flip_purge(c) == [c EXCEPT !.fp = ~ c.fp]

\* a tool change naming the outgoing extruder
change_tool_old(old_e, new_e) == [L0 EXCEPT !.op = "T", !.tool = old_e.tool, !.comment = " change tool"]

\* ("T%s" % new_e.tool), " change tool"
change_tool(old_e, new_e) == [L0 EXCEPT !.op = "T", !.tool = new_e.tool, !.comment = " change tool"]

\* the extra pass given to every hardware
extra_pass_always(hw) == TRUE

\* if self.hw_config == E3DV6: one more purge line
extra_pass(hw) == hw = E3DV6

\* an anchor that ignores the flag
purge_anchor_fixed(fp) == <<start_pos_x + D4(0, 6000), start_pos_y>>

\* the purge-zone anchor: (start_pos_x - 0.6, start_pos_y + 0.2) if
\* self.flipflop_purge, else (start_pos_x + 0.6, start_pos_y)
purge_anchor(fp) ==
    IF fp THEN <<start_pos_x - D4(0, 6000), start_pos_y + D4(0, 2000)>>
    ELSE <<start_pos_x + D4(0, 6000), start_pos_y>>

\* purge directions that ignore the orientation of the prime trail
purge_dirs_fixed(sign) == <<W, E>>

\* dir_1, dir_2: W, E if self.prepurge_sign == 1, else E, W
purge_dirs(sign) == IF sign = 1 THEN <<W, E>> ELSE <<E, W>>

\* get_tower_lines(layer, e_pos, old_e, new_e, z_hop, z_speed, xy_speed)
TowerStep(a, c) ==
    LET pc == c.pc
        old_e == a.extruder
        new_e == a.new_e
        loc == c.loc
        yshift(len, next) ==
            Yield(c, gen_direction_move(N, len, 3000, -1, 0, FALSE, " Y shift"), next)
        purge(d, next) ==
            Yield(c, gen_direction_move(d, loc.purge_length, loc.speeds[loc.i], new_e.tool,
                                        loc.purge_feed_rate, FALSE, " purge trail"), next)
    IN
    CASE pc = "l340" -> Yield(c, Marker(" TOWER START"), "l343")
      [] pc = "l343" ->
            YieldIf([c EXCEPT !.loc.min_speed = a.layer.min_speed,
                              !.loc.feed_rate = a.layer.feed_rate],
                    _get_retraction(a.e_pos, old_e), "l351")
      [] pc = "l351" -> YieldIf(c, _get_z_hop(Fl(c.z, c.zd), a.layer, a.z_hop, a.z_speed, old_e), "l355")
      [] pc = "l355" ->
            LET c1 == [c EXCEPT !.z = tower_z_add(Fl(c.z, c.zd), a.layer).v,
                                  !.zd = tower_z_add(Fl(c.z, c.zd), a.layer).d]
            IN  Yield(c1, gen_head_move(purge_anchor(c1.fp)[1], purge_anchor(c1.fp)[2],
                                        a.xy_speed, " move to purge zone"), "l361")
      [] pc = "l361" -> Yield(c, G1Z(Fl(c.z, c.zd), a.z_speed, " move z close"), "l362")
      [] pc = "l362" -> Yield(c, Raw("G91", " relative positioning"), "l363")
      [] pc = "l363" -> Yield(c, get_prime_gcode(old_e, -D4(0, 1000)), "l366")
      [] pc = "l366" -> Goto([c EXCEPT !.loc.tbl = c.fp, !.loc.i = 1], "l367")
      [] pc = "l367" ->
            IF loc.i <= Len(pre_switch_lines[loc.tbl])
            THEN Yield([c EXCEPT !.loc.i = @ + 1], pre_switch_lines[loc.tbl][loc.i], "l367")
            ELSE Goto(c, "l369")
      [] pc = "l369" -> Yield([c EXCEPT !.loc.i = 1], change_tool(old_e, new_e), "l372")
      [] pc = "l372" ->
            IF loc.i <= Len(post_switch_lines)
            THEN Yield([c EXCEPT !.loc.i = @ + 1], post_switch_lines[loc.i], "l372")
            ELSE Goto(c, "l376")
      [] pc = "l376" ->
            Goto([c EXCEPT !.loc.purge_feed_rate = get_feed_rate(new_e, D4(1, 2000)),
                           !.loc.purge_length = purge_line_length * prepurge_sign,
                           !.loc.dir_1 = purge_dirs(prepurge_sign)[1],
                           !.loc.dir_2 = purge_dirs(prepurge_sign)[2],
                           !.loc.speeds = generate_purge_speeds(loc.min_speed),
                           !.loc.i = 1], "l387")
      [] pc = "l387" ->
            IF loc.i <= Len(loc.speeds)
            THEN IF c.fp THEN yshift(D4(0, 6000), "l390") ELSE yshift(D4(0, 9000), "l395")
            ELSE Goto(c, "l399")
      [] pc = "l390" -> purge(loc.dir_1, "l391")
      [] pc = "l391" -> yshift(D4(0, 9000), "l392")
      [] pc = "l392" -> [purge(loc.dir_2, "l387") EXCEPT !.loc.i = @ + 1]
      [] pc = "l395" -> purge(loc.dir_1, "l396")
      [] pc = "l396" -> yshift(D4(0, 6000), "l397")
      [] pc = "l397" -> [purge(loc.dir_2, "l387") EXCEPT !.loc.i = @ + 1]
      [] pc = "l399" -> IF c.fp THEN yshift(D4(0, 6000), "l403") ELSE yshift(D4(0, 9000), "l403")
      [] pc = "l403" ->
            Yield([c EXCEPT !.loc.direction = loc.dir_1],
                  gen_direction_move(loc.dir_1, loc.purge_length, 2400, new_e.tool,
                                     loc.feed_rate, FALSE, " purge trail"), "l406")
      [] pc = "l406" ->
            IF extra_pass(hw_config)
            THEN IF c.fp THEN yshift(D4(0, 9000), "l412") ELSE yshift(D4(0, 6000), "l412")
            ELSE Goto(c, "l416")
      [] pc = "l412" ->
            Yield([c EXCEPT !.loc.direction = loc.dir_2],
                  gen_direction_move(loc.dir_2, loc.purge_length, loc.min_speed, new_e.tool,
                                     loc.feed_rate, FALSE, " purge trail"), "l416")
      [] pc = "l416" -> Yield(c, Raw("G90", " absolute positioning"), "l417")
      [] pc = "l417" -> Yield(c, _get_wall_position_gcode(FALSE, a.xy_speed), "l418")
      [] pc = "l418" ->
            Yield([c EXCEPT !.loc.wallflip = FALSE, !.loc.j = 1],
                  Raw("G91", " relative positioning"), "l421")
      [] pc = "l421" ->
            IF loc.j <= 4
            THEN Yield([c EXCEPT !.loc.j = @ + 1],
                       _get_wall_gcode(loc.j, loc.wallflip, new_e, loc.min_speed, loc.feed_rate),
                       "l421")
            ELSE Goto(c, "l424")
      [] pc = "l424" -> Yield(c, get_retract_gcode(new_e), "l425")
      [] pc = "l425" ->
            IF new_e.wipe # 0
            THEN Yield(c, wipe_move(loc.direction, new_e, 3000), "l428")
            ELSE Goto(c, "l428")
      [] pc = "l428" -> Yield(c, Raw("G90", " absolute positioning"), "l429")
      [] pc = "l429" -> Yield(c, Raw("G92", " reset extruder position"), "l430")
      [] pc = "l430" -> YieldIf(c, _get_z_hop(Fl(c.z, c.zd), a.layer, a.z_hop, a.z_speed, old_e), "l433")
      [] pc = "l433" -> Yield(c, Marker(" TOWER END"), "l436")
      [] pc = "l436" -> Goto(flip_purge(c), "done")


\* a flip that inverts both flags
flip_both(c) == [c EXCEPT !.fi = ~ c.fi, !.fp = ~ c.fp]

\* self.flipflop_infill = not self.flipflop_infill
flip_infill(c) == [c EXCEPT !.fi = ~ c.fi]

\* a ramp followed by a single pass at min_speed
infill_speeds_short(min_speed) ==
    LET step == ((2400 - min_speed) * 10000) \div 4
    IN  << D4(2400, 0), D4(2400, 0) - step, D4(2400, 0) - 2 * step, D4(2400, 0) - 3 * step,
           D4(min_speed, 0) >>

\* step = (2400 - min_speed) / 4
\* speeds = [2400 - i * step for i in range(4)] + [min_speed, min_speed]
\* The division is that of floats, so a speed may end in .25, .5 or .75:
\* the speeds are fixed-point, D4(2112, 5000) for 2112.5.
infill_speeds(min_speed) ==
    LET step == ((2400 - min_speed) * 10000) \div 4
    IN  << D4(2400, 0), D4(2400, 0) - step, D4(2400, 0) - 2 * step, D4(2400, 0) - 3 * step,
           D4(min_speed, 0), D4(min_speed, 0) >>

\* get_infill_lines(layer, e_pos, extruder, z_hop, z_speed, xy_speed)
InfillStep(a, c) ==
    LET pc == c.pc
        ext == a.extruder
        loc == c.loc
    IN
    CASE pc = "l449" -> Yield(c, Marker(" TOWER INFILL START"), "l452")
      [] pc = "l452" ->
            YieldIf([c EXCEPT !.loc.min_speed = a.layer.min_speed,
                              !.loc.feed_rate = a.layer.feed_rate],
                    _get_retraction(a.e_pos, ext), "l460")
      [] pc = "l460" -> YieldIf(c, _get_z_hop(Fl(c.z, c.zd), a.layer, a.z_hop, a.z_speed, ext), "l463")
      [] pc = "l463" ->
            LET c1 == [c EXCEPT !.z = tower_z_add(Fl(c.z, c.zd), a.layer).v,
                                  !.zd = tower_z_add(Fl(c.z, c.zd), a.layer).d]
            IN  Yield(c1, _get_wall_position_gcode(c1.fi, a.xy_speed), "l466")
      [] pc = "l466" -> Yield(c, G1Z(Fl(c.z, c.zd), a.z_speed, " move z close"), "l467")
      [] pc = "l467" -> Yield(c, Raw("G91", " relative positioning"), "l468")
      [] pc = "l468" -> Yield(c, get_prime_gcode(ext, 0), "l471")
      [] pc = "l471" -> Goto([c EXCEPT !.loc.wallflip = c.fi, !.loc.j = 1], "l477")
      [] pc = "l477" ->
            IF loc.j <= 4
            THEN Yield([c EXCEPT !.loc.j = @ + 1],
                       _get_wall_gcode(loc.j, loc.wallflip, ext, 2400, loc.feed_rate), "l477")
            ELSE Goto(c, "l480")
      [] pc = "l480" ->
            Goto([c EXCEPT !.loc.flip = c.fi,
                           !.loc.speeds = infill_speeds(loc.min_speed),
                           !.loc.direction = infill_angle,
                           !.loc.i = 1], "l488")
      [] pc = "l488" ->
            IF loc.i <= Len(loc.speeds)
            THEN LET direction == IF loc.flip THEN infill_angle ELSE D4(360, 0) - infill_angle
                 IN  Yield([c EXCEPT !.loc.direction = direction, !.loc.flip = ~ loc.flip,
                                     !.loc.i = @ + 1],
                           gen_direction_move(direction, infill_path_length, loc.speeds[loc.i],
                                              ext.tool, loc.feed_rate,
                                              Len(loc.speeds) - loc.i = 0, " infill"), "l488")
            ELSE Goto(c, "l498")
      [] pc = "l498" -> Yield(c, get_retract_gcode(ext), "l499")
      [] pc = "l499" ->
            IF ext.wipe # 0
            THEN Yield(c, wipe_move(loc.direction, ext, 2000), "l502")
            ELSE Goto(c, "l502")
      [] pc = "l502" -> Yield(c, Raw("G90", " absolute positioning"), "l503")
      [] pc = "l503" -> YieldIf(c, _get_z_hop(Fl(c.z, c.zd), a.layer, a.z_hop, a.z_speed, ext), "l506")
      [] pc = "l506" -> Yield(c, Raw("G92", " reset extruder position"), "l507")
      [] pc = "l507" -> Yield(c, Marker(" TOWER INFILL END"), "l510")
      [] pc = "l510" -> Goto(flip_infill(c), "done")

\* _get_wall_gcode(flipflop, extruder, wall_speed, feed_rate) called on its
\* own: a generator of four pairs, loc.j the next one
WallStep(a, c) ==
    IF c.loc.j <= 4
    THEN Yield([c EXCEPT !.loc.j = @ + 1],
               _get_wall_gcode(c.loc.j, a.flipflop, a.extruder, a.wall_speed, a.feed_rate),
               "l316")
    ELSE Goto(c, "done")

\* generator bodies that never return to absolute positioning
StepSkipG90(kind, a, c) ==
    LET c2 == CASE kind = "raft" -> RaftStep(a, c)
                [] kind = "tower" -> TowerStep(a, c)
                [] kind = "infill" -> InfillStep(a, c)
                [] kind = "wall" -> WallStep(a, c)
    IN  IF c2.y.op = "G90" THEN [c2 EXCEPT !.y = NoLine] ELSE c2

Step(kind, a, c) ==
    CASE kind = "raft" -> RaftStep(a, c)
      [] kind = "tower" -> TowerStep(a, c)
      [] kind = "infill" -> InfillStep(a, c)
      [] kind = "wall" -> WallStep(a, c)

\* a generator that runs the statements after its last yield together with it
RECURSIVE RunEager(_, _, _)
RunEager(kind, a, c) ==
    LET c2 == Step(kind, a, c)
    IN  IF c2.pc = "done" THEN c2
        ELSE IF c2.y # NoLine
             THEN (IF c2.pc \in {"l265", "l436", "l510"}
                   THEN [Step(kind, a, c2) EXCEPT !.y = c2.y]
                   ELSE c2)
             ELSE RunEager(kind, a, c2)

\* next(generator): run the body to its next yield, or to its end (StopIteration)
RECURSIVE Run(_, _, _)
Run(kind, a, c) ==
    LET c2 == Step(kind, a, c)
    IN  IF c2.y # NoLine \/ c2.pc = "done" THEN c2 ELSE Run(kind, a, c2)

----------------------------------------------------------------------------
(* The state machine.  gens[g] is a generator object; out[g] the pairs its  *)
(* consumer has received; ret the last direct helper call and its result;   *)
(* hist counts the calls (started, and completed per kind), remembers       *)
(* whether the calls so far form a job (raft first, then switch/infill),    *)
(* sums the layer heights of the completed switch/infill calls and keeps    *)
(* the mutable fields as they were when the latest call was made.           *)

GenIds == {1, 2}

NoCall == [op |-> "none", e_pos |-> 0, extruder |-> Args0.extruder, layer |-> Args0.layer,
           z_hop |-> 0, z_speed |-> 0, min_speed |-> 0, flipflop |-> FALSE,
           xy_speed |-> 0, wall_speed |-> 0, feed_rate |-> 0,
           before |-> <<0, FALSE, FALSE, 0>>, line |-> NoLine, list |-> << >>]

Hist0 == [calls |-> 0, raft |-> 0, tower |-> 0, infill |-> 0, job |-> "fresh", sum_h |-> 0,
          z0 |-> 0, fp0 |-> FALSE, fi0 |-> FALSE]

Construct(x, y, hw) ==
    /\ hw_config = hw
    /\ width = InitWidth
    /\ height = InitHeight(hw)
    /\ wall_width = InitWidth + D4(2, 4000)
    /\ wall_height = InitHeight(hw) + D4(1, 0)
    /\ raft_width = InitWidth + D4(4, 0)
    /\ raft_height = InitHeight(hw) + D4(2, 0)
    /\ start_pos_x = x
    /\ start_pos_y = y
    /\ raft_pos_x = x - D4(2, 0)
    /\ raft_pos_y = y - D4(1, 2000)
    /\ last_tower_z = 0
    /\ z_err = 0
    /\ flipflop_purge = FALSE
    /\ flipflop_infill = FALSE
    /\ purge_line_length = InitWidth + D4(0, 6000)
    /\ purge_lines = InitPurgeLines(hw)
    /\ pre_switch_lines = init_pre_switch_gcode(hw, InitWidth)
    /\ post_switch_lines = init_post_switch_gcode(hw, InitWidth, << >>, 1).lines
    /\ prepurge_sign = init_post_switch_gcode(hw, InitWidth, << >>, 1).sign

Init ==
    /\ \E pos \in StartPositions, hw \in Selectors : Construct(pos[1], pos[2], hw)
    /\ gens = [g \in GenIds |-> NoGen]
    /\ out = [g \in GenIds |-> << >>]
    /\ ret = NoCall
    /\ hist = Hist0

Idle == \A g \in GenIds : gens[g].pc = "done"

\* the job status once a call of this kind starts
JobAfter(kind) ==
    IF hist.job = "fresh" THEN (IF kind = "raft" THEN "job" ELSE "no_job")
    ELSE IF hist.job = "job" /\ kind # "raft" THEN "job"
    ELSE "no_job"

\* the generator object a generation call returns; none of its body has run
Create(g, kind, pc0, a) ==
    /\ hist.calls < MaxCalls
    /\ gens' = [gens EXCEPT ![g] = [kind |-> kind, pc |-> pc0, a |-> a, loc |-> Loc0]]
    /\ out' = [out EXCEPT ![g] = << >>]
    /\ ret' = NoCall
    /\ hist' = [hist EXCEPT !.calls = @ + 1, !.job = JobAfter(kind),
                            !.z0 = last_tower_z, !.fp0 = flipflop_purge,
                            !.fi0 = flipflop_infill]
    /\ UNCHANGED <<geom, tables, mutable>>

\* a single owner: a call is made once the previous one is consumed
StartGen(g, kind, pc0, a) ==
    /\ Idle
    /\ g = 1
    /\ Create(g, kind, pc0, a)

\* st.get_raft_lines(...): creating the generator runs none of its body
StartRaft(g) ==
    /\ Idle
    /\ \E ext \in Extruders, r \in BOOLEAN, zs \in ZSpeeds, xs \in XYSpeeds :
        StartGen(g, "raft", "l225",
                 [Args0 EXCEPT !.extruder = ext, !.retract = r, !.z_speed = zs, !.xy_speed = xs])

StartTower(g) ==
    /\ Idle
    /\ \E l \in CallLayers, ep \in CallEPositions, old_e \in Extruders, new_e \in Extruders,
          zh \in ZHops, zs \in ZSpeeds, xs \in XYSpeeds :
        /\ old_e # new_e
        /\ zh \in CallZHops(old_e)
        /\ StartGen(g, "tower", "l340",
                    [Args0 EXCEPT !.layer = l, !.e_pos = ep, !.extruder = old_e, !.new_e = new_e,
                                  !.z_hop = zh, !.z_speed = zs, !.xy_speed = xs])

StartInfill(g) ==
    /\ Idle
    /\ \E l \in CallLayers, ep \in CallEPositions, ext \in Extruders,
          zh \in ZHops, zs \in ZSpeeds, xs \in XYSpeeds :
        /\ zh \in CallZHops(ext)
        /\ StartGen(g, "infill", "l449",
                 [Args0 EXCEPT !.layer = l, !.e_pos = ep, !.extruder = ext,
                               !.z_hop = zh, !.z_speed = zs, !.xy_speed = xs])

\* the consumer pulls the next pair from generator g (a value a helper
\* returned has been dropped by then)
Pull(g) ==
    /\ gens[g].kind # "none"
    /\ gens[g].pc # "done"
    /\ ret = NoCall
    /\ LET gg == gens[g]
           c == Run(gg.kind, gg.a,
                    [pc |-> gg.pc, loc |-> gg.loc, z |-> last_tower_z, zd |-> z_err,
                     fp |-> flipflop_purge, fi |-> flipflop_infill, y |-> NoLine])
           finished == c.pc = "done" /\ c.y = NoLine
       IN  /\ gens' = [gens EXCEPT ![g].pc = c.pc, ![g].loc = c.loc]
           /\ out' = [out EXCEPT ![g] = IF c.y # NoLine THEN Append(@, c.y) ELSE @]
           /\ last_tower_z' = c.z
           /\ z_err' = c.zd
           /\ flipflop_purge' = c.fp
           /\ flipflop_infill' = c.fi
           /\ hist' = IF finished /\ gg.kind # "wall"
                      THEN [hist EXCEPT ![gg.kind] = @ + 1,
                                        !.sum_h = IF gg.kind = "raft" THEN 0
                                                  ELSE @ + gg.a.layer.height]
                      ELSE hist
    /\ UNCHANGED <<geom, tables, ret>>

\* The caller holds a value a helper returned (ret) or a generator
\* _get_wall_gcode returned (gens[2] in SpecHelpers), one at a time.
Holding == ret # NoCall \/ gens[2].kind # "none"

\* the arguments of the direct _get_z_hop calls: an extruder more, whose
\* z-hop added to a tower height of 0.1 is a sum of doubles that is not the
\* double 0.3
HopExtruders ==
    Extruders \cup { [tool |-> 2, retract |-> D4(1, 0), retract_speed |-> 1800,
                       z_hop |-> D4(0, 2000), wipe |-> 0, feed_rate |-> D4(0, 400)] }
HopLayers == [height : {0}, z : {D4(0, 2000), D4(0, 3000)}, min_speed : {2400},
              feed_rate : {D4(0, 450)}]

\* direct calls of the helpers, at any moment: between generation calls or
\* while a generator is suspended between two pulls
CallRetraction ==
    /\ ~ Holding
    /\ \E ep \in EPositions, ext \in Extruders :
          ret' = [NoCall EXCEPT !.op = "_get_retraction", !.e_pos = ep, !.extruder = ext,
                                !.before = mutable,
                                !.line = _get_retraction(ep, ext)]
    /\ UNCHANGED <<geom, tables, mutable, gens, out, hist>>

CallZHop ==
    /\ ~ Holding
    /\ \E l \in HopLayers, zh \in ZHops, zs \in ZSpeeds, ext \in HopExtruders :
          ret' = [NoCall EXCEPT !.op = "_get_z_hop", !.layer = l, !.z_hop = zh, !.z_speed = zs,
                                !.extruder = ext, !.before = mutable,
                                !.line = _get_z_hop(Fl(last_tower_z, z_err), l, zh, zs, ext)]
    /\ UNCHANGED <<geom, tables, mutable, gens, out, hist>>

CallPurgeSpeeds ==
    /\ ~ Holding
    /\ \E ms \in MinSpeeds \cup {600} :
          ret' = [NoCall EXCEPT !.op = "generate_purge_speeds", !.min_speed = ms,
                                !.before = mutable,
                                !.list = generate_purge_speeds(ms)]
    /\ UNCHANGED <<geom, tables, mutable, gens, out, hist>>

CallWallPosition ==
    /\ ~ Holding
    /\ \E ff \in BOOLEAN, xs \in XYSpeeds :
          ret' = [NoCall EXCEPT !.op = "_get_wall_position_gcode", !.flipflop = ff,
                                !.xy_speed = xs, !.before = mutable,
                                !.line = _get_wall_position_gcode(ff, xs)]
    /\ UNCHANGED <<geom, tables, mutable, gens, out, hist>>

\* st.init_pre_switch_gcode() on the constructed tower: both tables are
\* emptied and filled again
CallInitPreSwitch ==
    /\ ~ Holding
    /\ pre_switch_lines' = init_pre_switch_gcode(hw_config, width)
    /\ ret' = [NoCall EXCEPT !.op = "init_pre_switch_gcode", !.before = mutable]
    /\ UNCHANGED <<geom, prepurge_sign, post_switch_lines, mutable, gens, out, hist>>

\* the calls of init_post_switch_gcode on a constructed tower
MaxPostInits == 2

\* st.init_post_switch_gcode() on the constructed tower: the lines are
\* appended to the list that holds them already, on every call
CallInitPostSwitch ==
    /\ ~ Holding
    /\ Len(post_switch_lines)
          <= MaxPostInits * Len(init_post_switch_gcode(hw_config, width, << >>, 1).lines)
    /\ LET t == init_post_switch_gcode(hw_config, width, post_switch_lines, prepurge_sign)
       IN  /\ post_switch_lines' = t.lines
           /\ prepurge_sign' = t.sign
    /\ ret' = [NoCall EXCEPT !.op = "init_post_switch_gcode", !.before = mutable]
    /\ UNCHANGED <<geom, pre_switch_lines, mutable, gens, out, hist>>

\* self._get_wall_gcode(flipflop, extruder, wall_speed, feed_rate): creating
\* the generator runs none of its body
StartWall ==
    /\ ~ Holding
    /\ \E ff \in BOOLEAN, ext \in Extruders, l \in CallLayers :
          /\ ext.z_hop # 0
          /\ l.height = 0
          /\ gens' = [gens EXCEPT ![2] =
                        [kind |-> "wall", pc |-> "l316",
                         a |-> [Args0 EXCEPT !.flipflop = ff, !.extruder = ext,
                                             !.wall_speed = l.min_speed,
                                             !.feed_rate = l.feed_rate],
                         loc |-> [Loc0 EXCEPT !.j = 1]]]
    /\ out' = [out EXCEPT ![2] = << >>]
    /\ UNCHANGED <<geom, tables, mutable, ret, hist>>

\* the caller drops the wall generator, consumed or not
DropWall ==
    /\ gens[2].kind = "wall"
    /\ gens' = [gens EXCEPT ![2] = NoGen]
    /\ out' = [out EXCEPT ![2] = << >>]
    /\ UNCHANGED <<geom, tables, mutable, ret, hist>>

Next ==
    \/ \E g \in GenIds : StartRaft(g)
    \/ \E g \in GenIds : StartTower(g)
    \/ \E g \in GenIds : StartInfill(g)
    \/ \E g \in GenIds : Pull(g)

Spec == Init /\ [][Next]_vars

----------------------------------------------------------------------------
(* The same tower with a caller that also calls the helpers, the table      *)
(* initialisers and _get_wall_gcode itself, at any moment: before, between  *)
(* and after the pulls of a generation call.  Generator 1 is the generation *)
(* call, generator 2 the wall generator.                                    *)

\* the generation calls of a run with helper calls
HelperRuns == MaxCalls - 2
HelperLayers == {l \in CallLayers : l.height = D4(0, 1000)}
HelperExtruders == {e \in Extruders : e.z_hop # 0}

\* a generation call is made once the previous one is consumed; a wall
\* generator may be suspended meanwhile
HelperFree ==
    /\ gens[1].pc = "done"
    /\ ret = NoCall
    /\ hist.calls < HelperRuns

\* the raft, on a tower that made no call yet
HelperRaft ==
    /\ HelperFree
    /\ hist.calls = 0
    /\ \E ext \in HelperExtruders, zs \in ZSpeeds, xs \in XYSpeeds :
          Create(1, "raft", "l225",
                 [Args0 EXCEPT !.extruder = ext, !.retract = TRUE, !.z_speed = zs,
                               !.xy_speed = xs])

HelperTower ==
    /\ HelperFree
    /\ \E l \in HelperLayers, old_e \in HelperExtruders, new_e \in Extruders,
          zs \in ZSpeeds, xs \in XYSpeeds :
          /\ old_e # new_e
          /\ Create(1, "tower", "l340",
                    [Args0 EXCEPT !.layer = l, !.extruder = old_e, !.new_e = new_e,
                                  !.z_hop = old_e.z_hop, !.z_speed = zs, !.xy_speed = xs])

HelperInfill ==
    /\ HelperFree
    /\ \E l \in HelperLayers, ext \in HelperExtruders, zs \in ZSpeeds, xs \in XYSpeeds :
          Create(1, "infill", "l449",
                 [Args0 EXCEPT !.layer = l, !.extruder = ext,
                               !.z_hop = ext.z_hop, !.z_speed = zs, !.xy_speed = xs])

\* the caller drops the value a helper returned
Discard ==
    /\ ret # NoCall
    /\ ret' = NoCall
    /\ UNCHANGED <<geom, tables, mutable, gens, out, hist>>

NextHelpers ==
    \/ HelperRaft
    \/ HelperTower
    \/ HelperInfill
    \/ \E g \in GenIds : Pull(g)
    \/ CallRetraction
    \/ CallZHop
    \/ CallPurgeSpeeds
    \/ CallWallPosition
    \/ CallInitPreSwitch
    \/ CallInitPostSwitch
    \/ StartWall
    \/ DropWall
    \/ Discard

SpecHelpers == Init /\ [][NextHelpers]_vars

----------------------------------------------------------------------------
(* Two switch/infill generators of one tower, created at any time and       *)
(* consumed interleaved pair by pair.                                       *)

InterLayers == {l \in CallLayers : l.height > 0}
InterExtruders == {e \in Extruders : e.z_hop # 0}
InterSelectors == {PTFE, UNKNOWN_HW}

InitInterleaved == Init /\ hw_config \in InterSelectors

\* generator 2 is the one created second
Free(g) == gens[g].kind = "none" /\ (g = 2 => gens[1].kind # "none")

InterTower(g) ==
    /\ Free(g)
    /\ \E l \in InterLayers, old_e \in InterExtruders, new_e \in Extruders,
          zs \in ZSpeeds, xs \in XYSpeeds :
        /\ old_e # new_e
        /\ Create(g, "tower", "l340",
                  [Args0 EXCEPT !.layer = l, !.extruder = old_e, !.new_e = new_e,
                                !.z_speed = zs, !.xy_speed = xs])

InterInfill(g) ==
    /\ Free(g)
    /\ \E l \in InterLayers, ext \in InterExtruders, zs \in ZSpeeds, xs \in XYSpeeds :
        Create(g, "infill", "l449",
                  [Args0 EXCEPT !.layer = l, !.extruder = ext,
                                !.z_speed = zs, !.xy_speed = xs])

NextInterleaved ==
    \/ \E g \in GenIds : InterTower(g)
    \/ \E g \in GenIds : InterInfill(g)
    \/ \E g \in GenIds : Pull(g)

SpecInterleaved == InitInterleaved /\ [][NextInterleaved]_vars

----------------------------------------------------------------------------
(* Properties.                                                              *)

\* generator g has been consumed to its end
Done(g) == gens[g].kind # "none" /\ gens[g].pc = "done"

\* the positions in out[g] of the pairs with command o
Idx(g, o) == {i \in 1..Len(out[g]) : out[g][i].op = o}

\* C1: flipflop_purge is True exactly when the number of completed switch
\* calls is odd, flipflop_infill exactly when the number of completed infill
\* calls is odd; the raft call and the other kind of call change neither.
C1_FlipFlopParity ==
    /\ flipflop_purge = (hist.tower % 2 = 1)
    /\ flipflop_infill = (hist.infill % 2 = 1)

C1_Witness ==
    /\ Idle
    /\ hist.raft = 1 /\ hist.tower = 1 /\ hist.infill = 1
    /\ flipflop_purge /\ flipflop_infill

\* C2: within a job last_tower_z never decreases from one state to the next,
\* a switch/infill call adds its layer height and nothing else, and between
\* calls last_tower_z is 0.2 plus the layer heights of the calls completed.
C2_TowerZInJob ==
    [][hist'.job = "job" =>
          /\ last_tower_z' >= last_tower_z
          /\ \A g \in GenIds :
                (gens[g].kind \in {"tower", "infill"} /\ last_tower_z' # last_tower_z)
                    => last_tower_z' = last_tower_z + gens[g].a.layer.height
          /\ Idle' => last_tower_z' = D4(0, 2000) + hist'.sum_h]_vars

C2_Witness ==
    /\ Idle
    /\ hist.job = "job" /\ hist.calls = 3 /\ hist.tower = 1 /\ hist.infill = 1
    /\ hist.sum_h = D4(0, 3000)
    /\ last_tower_z = D4(0, 5000)

\* C3: a fully consumed switch call emits exactly one tool-change command,
\* naming new_e.tool, directly after the lines of the pre-switch table
\* selected by the flipflop_purge of the call and directly before the lines
\* of the post-switch table; raft and infill calls emit none.
C3_OneToolChange ==
    \A g \in GenIds :
        /\ gens[g].kind \in {"raft", "infill"} => Idx(g, "T") = {}
        /\ (gens[g].kind = "tower" /\ Done(g)) =>
              /\ Cardinality(Idx(g, "T")) = 1
              /\ \A t \in Idx(g, "T") :
                    LET pre == pre_switch_lines[~ flipflop_purge]
                    IN  /\ out[g][t].tool = gens[g].a.new_e.tool
                        /\ t > Len(pre)
                        /\ SubSeq(out[g], t - Len(pre), t - 1) = pre
                        /\ t + Len(post_switch_lines) <= Len(out[g])
                        /\ SubSeq(out[g], t + 1, t + Len(post_switch_lines)) = post_switch_lines
                        /\ \A i \in 1..Len(out[g]) :
                              (out[g][i].op \in {"G1", "G4"} /\ out[g][i].comment # " tower retract")
                                  => t - Len(pre) <= i /\ i <= t + Len(post_switch_lines)

C3_Witness ==
    /\ gens[1].kind = "tower" /\ Done(1)
    /\ hw_config = PEEK
    /\ hist.tower = 2
    /\ ~ flipflop_purge


\* the post-switch purge passes of a switch call: the extruding purge-trail
\* moves after the post-switch table and before the wall
PurgePasses(g) ==
    {i \in 1..Len(out[g]) :
        /\ out[g][i].op = "dir_move"
        /\ out[g][i].comment = " purge trail"
        /\ out[g][i].tool = gens[g].a.new_e.tool
        /\ \E t \in Idx(g, "T") : i > t + Len(post_switch_lines)
        /\ \A w \in 1..Len(out[g]) : out[g][w].comment = " wall" => i < w}

\* C4 as stated: purge_lines + 1 passes for PTFE and PEEK, purge_lines + 2
\* for E3DV6.
C4_PassesAsStated ==
    \A g \in GenIds :
        (gens[g].kind = "tower" /\ Done(g) /\ hw_config \in HW_CONFIGS) =>
            Cardinality(PurgePasses(g)) =
                IF hw_config = E3DV6 THEN purge_lines + 2 ELSE purge_lines + 1

\* C4: the loop prints two passes per purge speed, so a switch call makes
\* 2 * purge_lines + 1 post-switch purge passes for PTFE and PEEK and
\* 2 * purge_lines + 2 for E3DV6, for either value of flipflop_purge.
C4_PurgePasses ==
    \A g \in GenIds :
        (gens[g].kind = "tower" /\ Done(g) /\ hw_config \in HW_CONFIGS) =>
            Cardinality(PurgePasses(g)) =
                IF hw_config = E3DV6 THEN 2 * purge_lines + 2 ELSE 2 * purge_lines + 1

C4_Witness ==
    /\ gens[1].kind = "tower" /\ Done(1)
    /\ hw_config = E3DV6
    /\ hist.fp0
    /\ Cardinality(PurgePasses(1)) = 14

\* C5: _get_retraction emits nothing when retract + e_pos is zero to three
\* decimals; otherwise one command with a negative feed amount, at the
\* retract speed, of magnitude at most the retract length.
C5_RetractionClamped ==
    ret.op = "_get_retraction" =>
        LET r == ret.extruder.retract
        IN  IF is_float_zero(FAdd(FLit(r), FLit(ret.e_pos)))
            THEN ret.line = NoLine
            ELSE /\ ret.line.op = "G1"
                 /\ ret.line.f = ret.extruder.retract_speed
                 /\ ret.line.e < 0
                 /\ Abs(ret.line.e) <= r

\* C6: _get_z_hop emits a lift to last_tower_z + extruder.z_hop at the given
\* z speed exactly when the extruder's z-hop is non-zero and that height
\* differs from layer.z + z_hop, both sums being the sums of doubles the code
\* compares; otherwise nothing; the tower is unchanged.
C6_ZHop ==
    [][(ret = NoCall /\ ret'.op = "_get_z_hop") =>
          LET target == FAdd(Fl(last_tower_z, z_err), FLit(ret'.extruder.z_hop))
              emit == /\ ret'.extruder.z_hop # 0
                      /\ target # FAdd(FLit(ret'.layer.z), FLit(ret'.z_hop))
          IN  /\ emit => /\ ret'.line.op = "G1Z"
                         /\ ret'.line.z = Fmt3F(target)
                         /\ ret'.line.z = Fmt3(last_tower_z + ret'.extruder.z_hop)
                         /\ ret'.line.f = ret'.z_speed
              /\ ~ emit => ret'.line = NoLine
              /\ (/\ ret'.extruder.z_hop # 0
                  /\ last_tower_z + ret'.extruder.z_hop # ret'.layer.z + ret'.z_hop) => emit
              /\ mutable' = mutable
              /\ ret'.before = mutable]_vars

\* the hop is suppressed after a raft, while a switch call is suspended
\* before its travel to the tower
C6_Witness ==
    /\ ret.op = "_get_z_hop"
    /\ ret.extruder.z_hop = D4(0, 5000)
    /\ ret.z_hop = D4(0, 5000)
    /\ ret.layer.z = D4(0, 2000)
    /\ ret.before = <<D4(0, 2000), FALSE, FALSE, FLit(D4(0, 2000)).d>>
    /\ ret.line = NoLine
    /\ hist.raft = 1

\* C7: a fully consumed raft call leaves last_tower_z at 0.2 (the double the
\* literal 0.2 denotes), whatever it was before and whatever the retract
\* flag and the extruder's z-hop are.
C7_RaftResetsZ ==
    \A g \in GenIds : (gens[g].kind = "raft" /\ Done(g)) =>
        Fl(last_tower_z, z_err) = FLit(D4(0, 2000))

C7_Witness ==
    /\ gens[1].kind = "raft" /\ Done(1)
    /\ hist.z0 > D4(0, 2000)
    /\ gens[1].a.retract
    /\ gens[1].a.extruder.z_hop # 0

\* C8: generate_purge_speeds returns purge_lines entries, all 2400, for every
\* min_speed and hardware config, and changes no tower state.
C8_PurgeSpeeds ==
    [][(ret = NoCall /\ ret'.op = "generate_purge_speeds") =>
          /\ Len(ret'.list) = purge_lines
          /\ \A i \in 1..Len(ret'.list) : ret'.list[i] = 2400
          /\ mutable' = mutable
          /\ vars' = [vars EXCEPT ![6] = ret']]_vars

C8_Witness ==
    /\ ret.op = "generate_purge_speeds"
    /\ ret.min_speed = 1200
    /\ hw_config = E3DV6
    /\ Len(ret.list) = 6
    /\ hist.calls > 0

\* C9: height is 14 for PTFE and PEEK and 16 for E3DV6; purge_lines is
\* floor(height / 2) - 1, one less for E3DV6, which is 6 for all three;
\* purge_lines >= 0; purge_line_length = width + 0.6 = 50.6.
C9_Geometry ==
    hw_config \in HW_CONFIGS =>
        /\ height = IF hw_config = E3DV6 THEN D4(16, 0) ELSE D4(14, 0)
        /\ purge_lines = (height \div D4(2, 0)) - 1 - (IF hw_config = E3DV6 THEN 1 ELSE 0)
        /\ purge_lines = 6
        /\ purge_lines >= 0
        /\ purge_line_length = width + D4(0, 6000)
        /\ purge_line_length = D4(50, 6000)

C9_Witness ==
    /\ hw_config = E3DV6
    /\ hist.calls = 0
    /\ height = D4(16, 0)
    /\ purge_lines = 6

\* C10: with a selector outside {PTFE, E3DV6, PEEK} the three tables are
\* empty and prepurge_sign is 1; a switch call still completes, emits its
\* single tool change directly after the prime nudge and directly before the
\* first Y shift of the purge passes, adds the layer height to last_tower_z
\* and inverts flipflop_purge.
C10_UnknownSelector ==
    hw_config \notin HW_CONFIGS =>
        /\ pre_switch_lines[TRUE] = << >>
        /\ pre_switch_lines[FALSE] = << >>
        /\ post_switch_lines = << >>
        /\ prepurge_sign = 1
        /\ \A g \in GenIds :
              (gens[g].kind = "tower" /\ Done(g)) =>
                  /\ Cardinality(Idx(g, "T")) = 1
                  /\ \A t \in Idx(g, "T") :
                        /\ out[g][t - 1] = get_prime_gcode(gens[g].a.extruder, -D4(0, 1000))
                        /\ out[g][t + 1].op = "dir_move"
                        /\ out[g][t + 1].comment = " Y shift"
                  /\ \A i \in 1..Len(out[g]) :
                        out[g][i].comment \notin {" prime trail", " 25mm/s feed", " 50mm/s feed",
                                                  " rapid retract", " drip trail"}
                  /\ last_tower_z = hist.z0 + gens[g].a.layer.height
                  /\ flipflop_purge = ~ hist.fp0

C10_Witness ==
    /\ hw_config = UNKNOWN_HW
    /\ gens[1].kind = "tower" /\ Done(1)
    /\ gens[1].a.layer.height = D4(0, 2000)
    /\ hist.fp0

\* C11: no raft, switch, infill, generate_purge_speeds or helper call (every
\* step but a repeated init_post_switch_gcode) changes the geometry and
\* position fields, purge_lines, purge_line_length, the three hardware tables
\* or prepurge_sign; a raft call changes no flag, a switch call leaves
\* flipflop_infill alone, an infill call leaves flipflop_purge alone, and a
\* step that is no pull of a generation call (a helper call, a pull of a wall
\* generator) changes no tower field.
C11_Frame ==
    [][/\ geom' = geom
       /\ ~ (ret = NoCall /\ ret'.op = "init_post_switch_gcode") => tables' = tables
       /\ hist'.raft # hist.raft =>
              flipflop_purge' = flipflop_purge /\ flipflop_infill' = flipflop_infill
       /\ hist'.tower # hist.tower => flipflop_infill' = flipflop_infill
       /\ hist'.infill # hist.infill => flipflop_purge' = flipflop_purge
       /\ gens[1].kind = "raft" =>
              flipflop_purge' = flipflop_purge /\ flipflop_infill' = flipflop_infill
       /\ gens[1].kind = "tower" => flipflop_infill' = flipflop_infill
       /\ gens[1].kind = "infill" => flipflop_purge' = flipflop_purge
       /\ (gens'[1] = gens[1] \/ hist'.calls # hist.calls) => mutable' = mutable]_vars

\* a wall generator created before an infill call is pulled twice after it
C11_Witness ==
    /\ gens[2].kind = "wall" /\ Len(out[2]) = 2
    /\ gens[1].kind = "infill" /\ Done(1)
    /\ flipflop_infill /\ ~ flipflop_purge
    /\ last_tower_z = D4(0, 1000)
    /\ hw_config = PTFE
    /\ pre_switch_lines = init_pre_switch_gcode(hw_config, InitWidth)
    /\ post_switch_lines = init_post_switch_gcode(hw_config, InitWidth, << >>, 1).lines

\* the section markers of the three generation calls
StartMarker(kind) ==
    CASE kind = "raft" -> Marker(" TOWER RAFT START")
      [] kind = "tower" -> Marker(" TOWER START")
      [] kind = "infill" -> Marker(" TOWER INFILL START")

EndMarker(kind) ==
    CASE kind = "raft" -> Marker(" TOWER RAFT END")
      [] kind = "tower" -> Marker(" TOWER END")
      [] kind = "infill" -> Marker(" TOWER INFILL END")

\* the number of pairs the optional opening steps of call g must contribute
OpeningPairs(g) ==
    LET a == gens[g].a
        one(b) == IF b THEN 1 ELSE 0
    IN  IF gens[g].kind = "raft"
        THEN one(a.extruder.z_hop # 0)
        ELSE one(~ is_float_zero(FAdd(FLit(a.extruder.retract), FLit(a.e_pos))))
             + one(a.extruder.z_hop # 0
                   /\ hist.z0 + a.extruder.z_hop # a.layer.z + a.z_hop)

\* C12: the first pair a call emits is its START marker and the last pair of
\* a fully consumed call is the matching END marker, both without command
\* text; no pair in between lacks command text; no empty pair is emitted:
\* the travel to the tower follows the START marker after exactly as many
\* pairs as optional steps (retraction, z-hop) had something to emit.
C12_Bracketed ==
    \A g \in GenIds :
        /\ Len(out[g]) >= 1 => out[g][1] = StartMarker(gens[g].kind)
        /\ Done(g) =>
              /\ \A i \in 1..Len(out[g]) : out[g][i] # NoLine /\ out[g][i] # L0
              /\ Len(out[g]) >= 2
              /\ out[g][1].op = "None"
              /\ out[g][Len(out[g])] = EndMarker(gens[g].kind)
              /\ out[g][Len(out[g])].op = "None"
              /\ \A i \in 2..(Len(out[g]) - 1) : out[g][i].op # "None"
              /\ out[g][2 + OpeningPairs(g)].op = "head_move"
              /\ \A i \in 2..(1 + OpeningPairs(g)) :
                    out[g][i].comment \in {" tower retract", " z-hop"}

C12_Witness ==
    /\ gens[1].kind = "tower" /\ Done(1)
    /\ gens[1].a.e_pos = -D4(1, 9995) /\ gens[1].a.extruder.retract = D4(2, 0)
    /\ gens[1].a.extruder.z_hop = 0
    /\ out[1][1] = Marker(" TOWER START")
    /\ out[1][2].op = "head_move"
    /\ out[1][Len(out[1])] = Marker(" TOWER END")

\* the X displacements of the prime trail in the post-switch table
PrimeTrailX ==
    {post_switch_lines[i].x : i \in {k \in 1..Len(post_switch_lines) :
                                        post_switch_lines[k].comment = " prime trail"}}

\* C13: prepurge_sign is 1 for PTFE and PEEK and -1 for E3DV6 and has the
\* sign of the X displacement of the post-switch prime trail; the purge
\* passes of a switch call go W, E, W, ... with length +purge_line_length
\* when the sign is 1 and E, W, E, ... with length -purge_line_length when
\* it is -1.
C13_PrepurgeSign ==
    /\ hw_config \in HW_CONFIGS =>
          /\ prepurge_sign = IF hw_config = E3DV6 THEN -1 ELSE 1
          /\ PrimeTrailX # {}
          /\ \A x \in PrimeTrailX : (x > 0) = (prepurge_sign = 1) /\ (x < 0) = (prepurge_sign = -1)
    /\ \A g \in GenIds :
          (gens[g].kind = "tower" /\ Done(g)) =>
              LET first == IF prepurge_sign = 1 THEN W ELSE E
                  second == IF prepurge_sign = 1 THEN E ELSE W
                  length == IF prepurge_sign = 1 THEN purge_line_length ELSE - purge_line_length
                  pp == PurgePasses(g)
              IN  \A i \in pp :
                      LET rank == Cardinality({j \in pp : j <= i})
                      IN  /\ out[g][i].len = length
                          /\ out[g][i].dir = IF rank % 2 = 1 THEN first ELSE second

C13_Witness ==
    /\ gens[1].kind = "tower" /\ Done(1)
    /\ hw_config = E3DV6
    /\ prepurge_sign = -1
    /\ \E i \in PurgePasses(1) : out[1][i].dir = E /\ out[1][i].len = -D4(50, 6000)
    /\ \E i \in PurgePasses(1) : out[1][i].dir = W /\ out[1][i].len = -D4(50, 6000)

\* the positions in out[g] of the pairs with comment cm
Commented(g, cm) == {i \in 1..Len(out[g]) : out[g][i].comment = cm}

\* the position of the travel to the tower in out[g] (0 before it is pulled)
Travel(g) ==
    LET hm == Idx(g, "head_move")
    IN  IF hm = {} THEN 0 ELSE CHOOSE i \in hm : \A j \in hm : i <= j

\* C14: in a switch or infill call a z-hop before the travel to the tower
\* targets the pre-call last_tower_z plus the extruder's z-hop, the descend
\* ("move z close") follows the travel directly and targets the pre-call
\* last_tower_z plus the layer height, and a z-hop after it targets the
\* incremented last_tower_z plus the extruder's z-hop; last_tower_z still has
\* its pre-call value until the travel is pulled and the incremented one from
\* then on; in a job the descend of a completed call targets 0.2 plus the
\* layer heights of the switch/infill calls up to and including it.
C14_HopAndDescend ==
    \A g \in GenIds :
        gens[g].kind \in {"tower", "infill"} =>
            LET a == gens[g].a
                t == Travel(g)
                zh == a.extruder.z_hop
                h == a.layer.height
            IN  /\ t = 0 => last_tower_z = hist.z0
                /\ t # 0 => last_tower_z = hist.z0 + h
                /\ \A i \in Commented(g, " z-hop") :
                      /\ out[g][i].op = "G1Z"
                      /\ (t = 0 \/ i < t) => out[g][i].z = Fmt3(hist.z0 + zh)
                      /\ (t # 0 /\ i > t) => out[g][i].z = Fmt3(hist.z0 + h + zh)
                /\ \A i \in Commented(g, " move z close") :
                      /\ i = t + 1
                      /\ out[g][i].op = "G1Z"
                      /\ out[g][i].z = Fmt3(hist.z0 + h)
                /\ Done(g) =>
                      /\ Cardinality(Commented(g, " move z close")) = 1
                      /\ Cardinality(Commented(g, " z-hop")) <= 2
                      /\ hist.job = "job" =>
                            \A i \in Commented(g, " move z close") :
                                out[g][i].z = Fmt3(D4(0, 2000) + hist.sum_h)

C14_Witness ==
    /\ gens[1].kind = "infill" /\ Done(1)
    /\ hist.job = "job" /\ hist.calls = 3
    /\ hist.z0 = D4(0, 4000)
    /\ gens[1].a.layer.height = D4(0, 1000)
    /\ \E i \in Commented(1, " z-hop") : i < Travel(1) /\ out[1][i].z = D4(0, 9000)
    /\ \E i \in Commented(1, " z-hop") : i > Travel(1) /\ out[1][i].z = D4(1, 0)
    /\ \E i \in Commented(1, " move z close") : out[1][i].z = D4(0, 5000)

\* the Y-shift lengths of the direction moves of out[g], in emission order
YShiftIdx(g) == {i \in Idx(g, "dir_move") : out[g][i].comment = " Y shift"}

\* C15: a sequentially consumed switch call makes every flip-dependent
\* choice with the flipflop_purge it found at call entry: the anchor of its
\* travel, the pre-switch table it emits and the order of its Y shifts (0.6
\* then 0.9 for True, 0.9 then 0.6 for False); the flag keeps that value
\* until the pull after the TOWER END marker; the value used is False for
\* the first switch call and alternates from one switch call to the next,
\* whatever infill calls lie in between.
C15_FlipAtEntry ==
    \A g \in GenIds :
        gens[g].kind = "tower" =>
            LET fp == hist.fp0
                t == Travel(g)
                short == D4(0, 6000)
                long == D4(0, 9000)
                ys == YShiftIdx(g)
            IN  /\ flipflop_purge = IF Done(g) THEN ~ fp ELSE fp
                /\ fp = ((IF Done(g) THEN hist.tower - 1 ELSE hist.tower) % 2 = 1)
                /\ Done(g) =>
                      /\ out[g][t].x = start_pos_x + (IF fp THEN - short ELSE short)
                      /\ out[g][t].y = start_pos_y + (IF fp THEN D4(0, 2000) ELSE 0)
                      /\ ys # {}
                      /\ \A i \in ys :
                            LET rank == Cardinality({j \in ys : j <= i})
                            IN  out[g][i].len = IF (rank % 2 = 1) = fp THEN short ELSE long
                      /\ \A k \in Idx(g, "T") :
                            /\ k > Len(pre_switch_lines[fp])
                            /\ SubSeq(out[g], k - Len(pre_switch_lines[fp]), k - 1)
                                  = pre_switch_lines[fp]
                            /\ out[g][k - Len(pre_switch_lines[fp]) - 1].op = "ext_prime"
                /\ (Len(out[g]) > 0 /\ out[g][Len(out[g])] = Marker(" TOWER END") /\ ~ Done(g))
                      => flipflop_purge = fp

C15_Witness ==
    /\ gens[1].kind = "tower" /\ Done(1)
    /\ hist.tower = 2 /\ hist.infill = 1
    /\ hist.fp0 /\ ~ flipflop_purge
    /\ hw_config = PTFE
    /\ out[1][Travel(1)].x = start_pos_x - D4(0, 6000)
    /\ \E i \in YShiftIdx(1) : out[1][i].len = D4(0, 6000) /\ out[1][i + 2].len = D4(0, 9000)

\* the positioning mode in force when pair i of out[g] is emitted: relative
\* when the latest G90/G91 before it is a G91; a call starts in absolute mode
RelativeAfter(g, sw, i) ==
    LET before == {j \in sw : j < i}
    IN  before # {} /\ out[g][CHOOSE j \in before : \A k \in before : k <= j].op = "G91"
Relative(g, i) == RelativeAfter(g, Idx(g, "G90") \cup Idx(g, "G91"), i)

\* C16: with the positioning mode tracked through the pairs of a fully
\* consumed call, G91 is emitted only in absolute mode and G90 only in
\* relative mode; direction
\* moves (walls, passes, shifts, wipe) and the X/Y moves of the pre- and
\* post-switch tables are emitted in relative mode; head travels, Z moves
\* (descend, z-hop) and the G92 E0 reset are emitted in absolute mode; a
\* fully consumed call ends in absolute mode, so the next one starts in it.
C16_PositioningMode ==
    \A g \in GenIds :
        Done(g) =>
            LET sw == Idx(g, "G90") \cup Idx(g, "G91")
                rel(i) == RelativeAfter(g, sw, i)
            IN  /\ \A i \in 1..Len(out[g]) :
                      LET l == out[g][i]
                      IN  /\ l.op = "G91" => ~ rel(i)
                          /\ l.op = "G90" => rel(i)
                          /\ l.op = "dir_move" => rel(i)
                          /\ (l.op = "G1" /\ (l.x # 0 \/ l.y # 0)) => rel(i)
                          /\ l.op \in {"head_move", "G1Z", "G92"} => ~ rel(i)
                /\ ~ rel(Len(out[g]) + 1)

C16_Witness ==
    /\ gens[1].kind = "tower" /\ Done(1)
    /\ hw_config = E3DV6
    /\ hist.calls = 3
    /\ Cardinality(Idx(1, "G91")) = 2 /\ Cardinality(Idx(1, "G90")) = 2
    /\ \E i \in Commented(1, " wipe") : Relative(1, i)
    /\ \E i \in Idx(1, "G92") : ~ Relative(1, i)
    /\ \E i \in Idx(1, "G1") : out[1][i].x # 0 /\ Relative(1, i)

\* the wall of call g: its four segments, the travel that positions the head
\* for it, and the corners the path visits
WallIdx(g) == Commented(g, " wall")
WallStart(g) ==
    LET before == {i \in Idx(g, "head_move") : \A w \in WallIdx(g) : i < w}
    IN  CHOOSE i \in before : \A j \in before : j <= i
RECURSIVE WallCorner(_, _)
WallCorner(g, n) ==
    IF n = 0 THEN <<out[g][WallStart(g)].x, out[g][WallStart(g)].y>>
    ELSE LET prev == WallCorner(g, n - 1)
             w == CHOOSE i \in WallIdx(g) : Cardinality({j \in WallIdx(g) : j <= i}) = n
         IN  <<prev[1] + DX(out[g][w].dir, out[g][w].len),
               prev[2] + DY(out[g][w].dir, out[g][w].len)>>

\* C19: the wall of a fully consumed switch or infill call starts at
\* (start_x - 1.2, start_y - 0.5) for flip True and wall_height higher for
\* flip False, goes E, N, W, S for True and E, S, W, N for False, with three
\* full sides and a fourth shortened to wall_height - 0.3 that alone is
\* flagged last line; it visits the corners of the rectangle from
\* (start_x - 1.2, start_y - 0.5) to (start_x - 1.2 + wall_width, start_y -
\* 0.5 + wall_height) and ends 0.3 short of its start corner; a switch call
\* uses flip False, an infill call the flipflop_infill it found at entry.
C19_WallRectangle ==
    \A g \in GenIds :
        (gens[g].kind \in {"tower", "infill"} /\ Done(g)) =>
            LET flip == IF gens[g].kind = "tower" THEN FALSE ELSE hist.fi0
                x0 == start_pos_x - D4(1, 2000)
                x1 == x0 + wall_width
                y0 == start_pos_y - D4(0, 5000)
                y1 == y0 + wall_height
                ws == WallIdx(g)
                first == CHOOSE i \in ws : \A j \in ws : i <= j
                seg(n) == out[g][first + n - 1]
                dirs == IF flip THEN <<E, N, W, S>> ELSE <<E, S, W, N>>
            IN  /\ Cardinality(ws) = 4
                /\ ws = first..(first + 3)
                /\ \A n \in 1..4 :
                      /\ seg(n).op = "dir_move"
                      /\ seg(n).dir = dirs[n]
                      /\ seg(n).last = (n = 4)
                /\ seg(1).len = wall_width /\ seg(3).len = wall_width
                /\ seg(2).len = wall_height
                /\ seg(4).len = wall_height - D4(0, 3000)
                /\ WallCorner(g, 0) = <<x0, IF flip THEN y0 ELSE y1>>
                /\ WallCorner(g, 1) = <<x1, IF flip THEN y0 ELSE y1>>
                /\ WallCorner(g, 2) = <<x1, IF flip THEN y1 ELSE y0>>
                /\ WallCorner(g, 3) = <<x0, IF flip THEN y1 ELSE y0>>
                /\ WallCorner(g, 4) = <<x0, IF flip THEN y0 + D4(0, 3000) ELSE y1 - D4(0, 3000)>>
                /\ gens[g].kind = "infill" => WallStart(g) = Travel(g)
                /\ gens[g].kind = "tower" => WallStart(g) # Travel(g)

C19_Witness ==
    /\ gens[1].kind = "infill" /\ Done(1)
    /\ hist.fi0 /\ hist.infill = 2
    /\ WallCorner(1, 0) = <<start_pos_x - D4(1, 2000), start_pos_y - D4(0, 5000)>>
    /\ WallCorner(1, 2) = <<start_pos_x - D4(1, 2000) + wall_width,
                            start_pos_y - D4(0, 5000) + wall_height>>
    /\ WallCorner(1, 4) = <<start_pos_x - D4(1, 2000), start_pos_y - D4(0, 2000)>>

\* the zig-zag fill passes of call g and the k-th of them (k = 1..)
InfillIdx(g) == Commented(g, " infill")
InfillPass(g, k) ==
    out[g][CHOOSE i \in InfillIdx(g) : Cardinality({j \in InfillIdx(g) : j <= i}) = k]

\* C20: a fully consumed infill call emits exactly six fill passes, all after
\* the wall; pass i (0..3) has speed 2400 - i * (2400 - min_speed) / 4 (a
\* quarter of a unit when 2400 - min_speed is no multiple of 4), passes 4 and
\* 5 have speed min_speed; the travel angle alternates between the
\* diagonal angle A and 360 - A, starting with A when the flipflop_infill at
\* call entry is True and with 360 - A when it is False; only the sixth pass
\* is flagged last line.
C20_InfillPasses ==
    \A g \in GenIds :
        (gens[g].kind = "infill" /\ Done(g)) =>
            LET ms == gens[g].a.layer.min_speed
                A == infill_angle
            IN  /\ Cardinality(InfillIdx(g)) = 6
                /\ \A i \in InfillIdx(g), w \in WallIdx(g) : w < i
                /\ \A k \in 1..6 :
                      LET l == InfillPass(g, k)
                      IN  /\ l.op = "dir_move"
                          /\ k <= 4 => 4 * l.f = D4(4 * 2400 - (k - 1) * (2400 - ms), 0)
                          /\ k > 4 => l.f = D4(ms, 0)
                          /\ l.dir = IF (k % 2 = 1) = hist.fi0 THEN A ELSE D4(360, 0) - A
                          /\ l.last = (k = 6)
                /\ A \in {D4(59, 2853), D4(62, 3925)}

C20_Witness ==
    /\ gens[1].kind = "infill" /\ Done(1)
    /\ hist.fi0
    /\ gens[1].a.layer.min_speed = 1250
    /\ hw_config = E3DV6
    /\ InfillPass(1, 1).dir = D4(62, 3925) /\ InfillPass(1, 2).dir = D4(297, 6075)
    /\ InfillPass(1, 2).f = D4(2112, 5000) /\ InfillPass(1, 4).f = D4(1537, 5000)
    /\ InfillPass(1, 6).f = D4(1250, 0)
    /\ InfillPass(1, 6).last /\ ~ InfillPass(1, 5).last

\* the step pulls a pair from generator g / the pull ends g without a pair
Pulled(g) == gens'[g] # gens[g] /\ hist'.calls = hist.calls
GotPair(g) == Len(out'[g]) = Len(out[g]) + 1
GotTravel(g) ==
    /\ GotPair(g)
    /\ gens[g].kind \in {"tower", "infill"}
    /\ Idx(g, "head_move") = {}
    /\ out'[g][Len(out'[g])].op = "head_move"
    /\ out'[g][Len(out'[g])].comment = " move to purge zone"
PastEnd(g) ==
    /\ Pulled(g) /\ ~ GotPair(g)
    /\ Len(out[g]) > 0
    /\ out[g][Len(out[g])] = EndMarker(gens[g].kind)
    /\ gens'[g].pc = "done"

\* C18: creating a raft, switch or infill sequence changes no tower field;
\* last_tower_z changes only in the pull that delivers the travel line of a
\* switch or infill call (which adds the layer height) or in the pull past
\* the END marker of a raft call (which sets 0.2); a flip-flop changes only
\* in the pull past the END marker of its own kind of call; so while the END
\* marker is the latest pair received and no further pull was made, the flag
\* (or the raft's 0.2) is not yet applied.
C18_LazyEffects ==
    [][/\ hist'.calls # hist.calls => mutable' = mutable
       /\ last_tower_z' # last_tower_z =>
             \E g \in GenIds :
                 /\ Pulled(g)
                 /\ \/ GotTravel(g)
                    \/ gens[g].kind = "raft" /\ PastEnd(g)
       /\ flipflop_purge' # flipflop_purge =>
             \E g \in GenIds : gens[g].kind = "tower" /\ PastEnd(g)
       /\ flipflop_infill' # flipflop_infill =>
             \E g \in GenIds : gens[g].kind = "infill" /\ PastEnd(g)
       /\ \A g \in GenIds :
             /\ (Pulled(g) /\ GotTravel(g)) =>
                    last_tower_z' = last_tower_z + gens[g].a.layer.height
             /\ PastEnd(g) =>
                    /\ gens[g].kind = "raft" => last_tower_z' = D4(0, 2000)
                    /\ gens[g].kind = "tower" => flipflop_purge' = ~ flipflop_purge
                    /\ gens[g].kind = "infill" => flipflop_infill' = ~ flipflop_infill
             /\ (Pulled(g) /\ GotPair(g)
                    /\ out'[g][Len(out'[g])] = EndMarker(gens[g].kind)) =>
                    /\ mutable' = mutable
                    /\ gens'[g].pc # "done"
                    /\ gens[g].kind = "raft" => last_tower_z' = hist.z0
                    /\ gens[g].kind = "tower" => flipflop_purge' = hist.fp0
                    /\ gens[g].kind = "infill" => flipflop_infill' = hist.fi0]_vars

C18_Witness ==
    /\ gens[1].kind = "raft" /\ ~ Done(1)
    /\ out[1] # << >> /\ out[1][Len(out[1])] = Marker(" TOWER RAFT END")
    /\ hist.tower = 1
    /\ last_tower_z = D4(0, 1000)
    /\ flipflop_purge

\* C17: nothing isolates two generators of one tower consumed interleaved:
\* the pull of a travel line adds the call's layer height to the shared
\* last_tower_z and anchors a switch call by the shared flipflop_purge of
\* that moment; the descend targets the shared last_tower_z of that moment,
\* the other call's layer height included when its travel line was pulled
\* in between.
C17_NoIsolation ==
    [][\A g \in GenIds :
          (Pulled(g) /\ GotPair(g)) =>
              LET l == out'[g][Len(out'[g])]
              IN  /\ l.comment = " move z close" =>
                         l.z = Fmt3(last_tower_z) /\ last_tower_z' = last_tower_z
                  /\ GotTravel(g) =>
                         /\ last_tower_z' = last_tower_z + gens[g].a.layer.height
                         /\ gens[g].kind = "tower" =>
                                /\ l.x = start_pos_x + (IF flipflop_purge THEN - D4(0, 6000)
                                                        ELSE D4(0, 6000))
                                /\ l.y = start_pos_y + (IF flipflop_purge THEN D4(0, 2000)
                                                        ELSE 0)]_vars

\* both corruptions in one run: two switch calls created on a fresh tower,
\* the first one's descend targets both layer heights, both travel to the
\* anchor of flipflop_purge = False and emit the same pre-switch table, and
\* after both inversions the flag is False again
C17_Witness ==
    /\ gens[1].kind = "tower" /\ gens[2].kind = "tower"
    /\ Done(1) /\ Done(2)
    /\ hw_config = PTFE
    /\ \E i \in Commented(1, " move z close") :
          out[1][i].z = gens[1].a.layer.height + gens[2].a.layer.height
    /\ last_tower_z = gens[1].a.layer.height + gens[2].a.layer.height
    /\ out[1][Travel(1)].x = start_pos_x + D4(0, 6000)
    /\ out[2][Travel(2)].x = start_pos_x + D4(0, 6000)
    /\ \A g \in GenIds : \A k \in Idx(g, "T") :
          SubSeq(out[g], k - Len(pre_switch_lines[FALSE]), k - 1) = pre_switch_lines[FALSE]
    /\ ~ flipflop_purge
    /\ hist.tower = 2

\* the Y displacement of a pair emitted in relative mode: the Y word of a
\* table line, the northward part of a direction move
DYof(l) ==
    IF l.op = "G1" THEN l.y
    ELSE IF l.op = "dir_move" THEN DY(l.dir, l.len)
    ELSE 0

\* the purge phase of switch call g ends with the first return to absolute
\* positioning (the position after the last pair while none was received)
PurgeEnd(g) ==
    LET s == Idx(g, "G90")
    IN  IF s = {} THEN Len(out[g]) + 1 ELSE CHOOSE i \in s : \A j \in s : i <= j

\* the Y position of the head, measured from start_pos_y, after pair n of
\* the purge phase, t being the position of the travel to the anchor
RECURSIVE PurgeY(_, _, _)
PurgeY(g, t, n) ==
    IF n <= t THEN out[g][t].y - start_pos_y
    ELSE PurgeY(g, t, n - 1) + DYof(out[g][n])

\* C21: for PTFE, PEEK and E3DV6 and either flipflop_purge, the Y position
\* of the purge phase of a fully consumed switch call, measured from
\* start_pos_y (anchor offset plus the Y shifts of the pre-switch table in
\* use plus the Y shifts of the purge passes, finishing and E3DV6 extra pass
\* included), never goes below 0 and stays strictly below the tower height
\* (14, or 16 for E3DV6); only the Y shifts move in Y, all northward; so the
\* purge stays between the two long sides of the wall.
C21_PurgeInsideTower ==
    \A g \in GenIds :
        (gens[g].kind = "tower" /\ Done(g) /\ hw_config \in HW_CONFIGS) =>
            LET t == Travel(g)
                e == PurgeEnd(g)
                y0 == start_pos_y - D4(0, 5000)
            IN  /\ height = IF hw_config = E3DV6 THEN D4(16, 0) ELSE D4(14, 0)
                /\ t > 0 /\ e > t
                /\ \A n \in (t + 1)..(e - 1) :
                      DYof(out[g][n]) # 0 =>
                          out[g][n].comment = " Y shift" /\ DYof(out[g][n]) > 0
                /\ \A n \in Commented(g, " Y shift") : t < n /\ n < e /\ DYof(out[g][n]) > 0
                /\ \A n \in t..(e - 1) :
                      /\ PurgeY(g, t, n) >= 0
                      /\ PurgeY(g, t, n) < height
                      /\ start_pos_y + PurgeY(g, t, n) > y0
                      /\ start_pos_y + PurgeY(g, t, n) < y0 + wall_height

C21_Witness ==
    /\ gens[1].kind = "tower" /\ Done(1)
    /\ hw_config = E3DV6
    /\ hist.fp0
    /\ out[1][Travel(1)].y = start_pos_y + D4(0, 2000)
    /\ Cardinality(Commented(1, " Y shift")) = 19
    /\ PurgeY(1, Travel(1), PurgeEnd(1) - 1) = D4(15, 9000)

\* the k-th post-switch purge pass of switch call g (k = 1..)
PurgePass(g, k) ==
    LET pp == PurgePasses(g)
    IN  out[g][CHOOSE i \in pp : Cardinality({j \in pp : j <= i}) = k]

\* C22: a fully consumed switch or infill call emits a wipe move exactly
\* when the wipe length of the printing extruder (new_e in a switch call) is
\* non-zero; the wipe is a travel of that length directly after that
\* extruder's retract command, which is emitted once in either case; its
\* direction is that of a pass plus 180 degrees: in a switch call the
\* finishing pass, which has the first direction of the pair, for PTFE and
\* PEEK, and the extra pass, which has the second, for E3DV6 (the last purge
\* pass in both cases), in an infill call the sixth fill pass.
C22_Wipe ==
    \A g \in GenIds :
        (gens[g].kind \in {"tower", "infill"} /\ Done(g)) =>
            LET ext == IF gens[g].kind = "tower" THEN gens[g].a.new_e ELSE gens[g].a.extruder
                wp == Commented(g, " wipe")
                rt == Idx(g, "ext_retract")
            IN  /\ (wp # {}) = (ext.wipe # 0)
                /\ Cardinality(wp) <= 1
                /\ Cardinality(rt) = 1
                /\ \A r \in rt :
                      /\ out[g][r] = get_retract_gcode(ext)
                      /\ IF ext.wipe # 0 THEN wp = {r + 1} ELSE out[g][r + 1].op = "G90"
                /\ \A i \in wp :
                      /\ out[g][i].op = "dir_move"
                      /\ out[g][i].len = ext.wipe
                      /\ out[g][i].tool = -1
                      /\ gens[g].kind = "infill" =>
                            out[g][i].dir = InfillPass(g, 6).dir + D4(180, 0)
                      /\ gens[g].kind = "tower" =>
                            LET n == Cardinality(PurgePasses(g))
                            IN  /\ out[g][i].dir = PurgePass(g, n).dir + D4(180, 0)
                                /\ hw_config \in {PTFE, PEEK} =>
                                      /\ n % 2 = 1
                                      /\ out[g][i].dir = PurgePass(g, 1).dir + D4(180, 0)
                                /\ hw_config = E3DV6 =>
                                      /\ n % 2 = 0
                                      /\ out[g][i].dir = PurgePass(g, 2).dir + D4(180, 0)
                                      /\ PurgePass(g, 1).dir # PurgePass(g, 2).dir

C22_Witness ==
    /\ gens[1].kind = "tower" /\ Done(1)
    /\ hw_config = E3DV6
    /\ gens[1].a.new_e.wipe = D4(2, 0)
    /\ gens[1].a.extruder.wipe = 0
    /\ PurgePass(1, 14).dir = W
    /\ \E i \in Commented(1, " wipe") :
          /\ out[1][i].dir = D4(360, 0)
          /\ out[1][i].len = D4(2, 0)
          /\ out[1][i - 1].op = "ext_retract" /\ out[1][i - 1].tool = 1

\* the wall segments of the raft of call g
RaftWallIdx(g) == Commented(g, " raft wall")

\* C23 as stated: three nested rectangular perimeters (twelve sides), the
\* first raft_width + 0.8 by raft_height + 0.8, then floor(raft_width / 2)
\* back-and-forth fill passes.
C23_ThreePerimeters ==
    \A g \in GenIds :
        (gens[g].kind = "raft" /\ Done(g)) =>
            LET rw == RaftWallIdx(g)
                first == CHOOSE i \in rw : \A j \in rw : i <= j
            IN  /\ Cardinality(rw) = 3 * 4
                /\ out[g][first].len = raft_width + D4(0, 8000)
                /\ out[g][first + 1].len = raft_height + D4(0, 8000)
                /\ Cardinality(Commented(g, " raft1")) = (raft_width \div 2) \div 10000

\* C23: between the switch to relative mode and the diagonal shift a fully
\* consumed raft call prints eight wall segments, E, N, W, S, E, N, W, S,
\* an inward spiral of two turns and not three perimeters: the lengths are
\* w, h, w, h - 0.4, w - 0.4, h - 0.8, w - 0.8, h - 1.2 with w = raft_width
\* + 0.8 and h = raft_height + 0.8, all extruding at speed 2000; after the
\* 0.6 diagonal shift (SE, no extrusion) come floor(raft_width / 2) = 27
\* fill rounds, each an extruding N pass of raft_height, a travel E of 1, an
\* extruding S pass of raft_height and a travel E of 1, the passes at speed
\* 1000 with 1.3 times the extruder's feed rate; the optional retraction or
\* the return to absolute mode follows the last round.
C23_RaftPerimeters ==
    \A g \in GenIds :
        (gens[g].kind = "raft" /\ Done(g)) =>
            LET ext == gens[g].a.extruder
                rw == RaftWallIdx(g)
                first == CHOOSE i \in rw : \A j \in rw : i <= j
                seg(n) == out[g][first + n - 1]
                w == raft_width + D4(0, 8000)
                h == raft_height + D4(0, 8000)
                dirs == <<E, N, W, S, E, N, W, S>>
                lens == <<w, h, w, h - D4(0, 4000), w - D4(0, 4000), h - D4(0, 8000),
                          w - D4(0, 8000), h - D4(1, 2000)>>
                d == first + 8
                rounds == (raft_width \div D4(2, 0))
                fill(k, n) == out[g][d + 4 * (k - 1) + n]
                feed == get_feed_rate(ext, D4(1, 3000))
            IN  /\ Cardinality(rw) = 8
                /\ rw = first..(first + 7)
                /\ out[g][first - 1].op = "G91"
                /\ \A n \in 1..8 :
                      seg(n) = gen_direction_move(dirs[n], lens[n], 2000, ext.tool, 0, FALSE,
                                                  " raft wall")
                /\ out[g][d] = gen_direction_move(SE, D4(0, 6000), gens[g].a.xy_speed, -1, 0,
                                                  FALSE, "")
                /\ rounds = 27
                /\ Cardinality(Commented(g, " raft1")) = rounds
                /\ Cardinality(Commented(g, " raft3")) = rounds
                /\ \A k \in 1..rounds :
                      /\ fill(k, 1) = gen_direction_move(N, raft_height, 1000, ext.tool, feed,
                                                         FALSE, " raft1")
                      /\ fill(k, 2) = gen_direction_move(E, D4(1, 0), 1000, -1, 0, FALSE, " raft2")
                      /\ fill(k, 3) = gen_direction_move(S, raft_height, 1000, ext.tool, feed,
                                                         FALSE, " raft3")
                      /\ fill(k, 4) = gen_direction_move(E, D4(1, 0), 1000, -1, 0, FALSE, " raft4")
                /\ out[g][d + 4 * rounds + 1].op =
                      IF gens[g].a.retract THEN "ext_retract" ELSE "G90"

C23_Witness ==
    /\ gens[1].kind = "raft" /\ Done(1)
    /\ hw_config = E3DV6
    /\ gens[1].a.retract
    /\ gens[1].a.extruder.tool = 1
    /\ Cardinality(RaftWallIdx(1)) = 8
    /\ \E i \in RaftWallIdx(1) :
          /\ out[1][i].dir = S /\ out[1][i].len = D4(17, 6000)
          /\ out[1][i + 1].dir = SE
    /\ Cardinality(Commented(1, " raft1")) = 27
    /\ \E i \in Commented(1, " raft1") : out[1][i].mult = D4(0, 650)

====
